---- MODULE Spec2Model ----
(***************************************************************************)
(* Capability registry and dispatcher (cached_nodit_api,                   *)
(* cached_bitcoin_api, cached_aptos_api) and the symbol resolver           *)
(* (symbol_converter) of web3-mcp.                                         *)
(*                                                                         *)
(* Representation of JavaScript values:                                    *)
(*  - an operation id, protocol or network is a TLA+ string;               *)
(*  - a path is a sequence of string pieces, so that String.replace can    *)
(*    be modelled as a search for the first piece equal to the pattern     *)
(*    followed by a splice of the (expanded) replacement;                  *)
(*  - a token symbol is a sequence of one-character strings, so that       *)
(*    toUpperCase is a per-character mapping;                              *)
(*  - an object is a function from property names to values; a property    *)
(*    read also sees the names every object inherits from Object.prototype;*)
(*  - a handler that throws yields the record [exception |-> ...].         *)
(***************************************************************************)
EXTENDS Integers, Sequences, FiniteSets, TLC

VARIABLES
    nodit_specs,      \* the object CACHED_NODIT_API_SPECS
    bitcoin_specs,    \* the object CACHED_BITCOIN_API_SPECS
    aptos_queries,    \* the object CACHED_APTOS_QUERIES
    pyth_feeds,       \* the object TOKEN_SYMBOL_TO_PYTH_FEED
    external_calls,   \* number of network requests issued for the request being served
    lastCall,         \* the tool and input of the latest request
    lastResult,       \* what the latest request returned (or threw)
    saved,            \* a request a client noted for repeating, with its result
    pc,               \* where the suspended handler of a price or feed tool stands
    pythFeeds,        \* the feeds it holds: pythFeeds, or nativeFeed as a list of one
    noditSymbols,     \* its noditSymbols
    oracle_requests,  \* the requests it has sent to the oracle
    priceUpdates,     \* what the oracle answered to the latest request
    pythResult,       \* what awaiting the oracle price client gave
    requests          \* the requests in progress at a server that overlaps them

pricingVars == <<pyth_feeds, pc, pythFeeds, noditSymbols, oracle_requests,
                 priceUpdates, pythResult, requests>>

vars == <<nodit_specs, bitcoin_specs, aptos_queries, external_calls,
          lastCall, lastResult, saved, pyth_feeds, pc, pythFeeds, noditSymbols,
          oracle_requests, priceUpdates, pythResult, requests>>

\* The value of a missing property or parameter.
Undefined == "undefined"

\* Property names every object inherits from Object.prototype.
OBJECT_PROTOTYPE_KEYS ==
    {"constructor", "toString", "valueOf", "hasOwnProperty", "__proto__"}

\* obj[key] in JavaScript: own property, else inherited one, else undefined.
JsGet(obj, key) ==
    IF key \in DOMAIN obj
    THEN [truthy |-> TRUE, own |-> TRUE, value |-> obj[key]]
    ELSE IF key \in OBJECT_PROTOTYPE_KEYS
         THEN [truthy |-> TRUE, own |-> FALSE, value |-> [builtin |-> key]]
         ELSE [truthy |-> FALSE, own |-> FALSE, value |-> [builtin |-> Undefined]]

\* Object.keys(obj): the own property names.
ObjectKeys(obj) == DOMAIN obj

\* v.name for a looked-up value v: undefined when v has no such property.
JsField(v, name) ==
    IF name \in DOMAIN v.value THEN v.value[name] ELSE Undefined

(***************************************************************************)
(* String.prototype.replace(pattern, replacement) with string arguments:   *)
(* only the first occurrence is replaced, and the replacement text may     *)
(* hold the patterns $$, $&, $` and $'.                                    *)
(***************************************************************************)
FirstIndexOf(str, piece) ==
    IF \E i \in 1..Len(str) : str[i] = piece
    THEN CHOOSE i \in 1..Len(str) :
            /\ str[i] = piece
            /\ \A j \in 1..(i - 1) : str[j] # piece
    ELSE 0

ExpandReplacement(replacement, matched, before, after) ==
    CASE replacement = "$$" -> <<"$">>
      [] replacement = "$&" -> <<matched>>
      [] replacement = "$`" -> before
      [] replacement = "$'" -> after
      [] OTHER -> <<replacement>>

StringReplace(str, pattern, replacement) ==
    LET i == FirstIndexOf(str, pattern) IN
    IF i = 0 THEN str
    ELSE LET before == SubSeq(str, 1, i - 1)
             after == SubSeq(str, i + 1, Len(str))
         IN before \o ExpandReplacement(replacement, pattern, before, after) \o after

(***************************************************************************)
(* The three registries.  requestSchema is represented by its list of     *)
(* required properties.                                                    *)
(***************************************************************************)
NoditPath(group, op) == <<"/", "{protocol}", "/", "{network}", "/", group, "/", op>>

\* An entry registered under the name of its path group.
NoditSpec_GroupAsId(op, group, desc, req) ==
    [operationId |-> group, path |-> NoditPath(group, op), method |-> "POST",
     description |-> desc, requestSchema |-> [type |-> "object", required |-> req],
     responseSchema |-> [schemaOf |-> op]]

NoditSpec(op, group, desc, req) ==
    [operationId |-> op, path |-> NoditPath(group, op), method |-> "POST",
     description |-> desc, requestSchema |-> [type |-> "object", required |-> req],
     responseSchema |-> [schemaOf |-> op]]

CACHED_NODIT_API_SPECS ==
    [searchTokenContractMetadataByKeyword |->
        NoditSpec("searchTokenContractMetadataByKeyword", "token",
                  "Search token contracts by keyword (name or symbol)", <<"keyword">>),
     getTokenPricesByContracts |->
        NoditSpec("getTokenPricesByContracts", "token",
                  "Get token prices for contract addresses", <<"contractAddresses">>),
     getTokenTransfersByAccount |->
        NoditSpec("getTokenTransfersByAccount", "token",
                  "Get token transfers for account address", <<"accountAddress">>),
     getTokensOwnedByAccount |->
        NoditSpec("getTokensOwnedByAccount", "token",
                  "Get tokens owned by account", <<"account">>),
     getNativeBalanceByAccount |->
        NoditSpec("getNativeBalanceByAccount", "native",
                  "Get native token balance for account", <<"account">>),
     getGasPrice |->
        NoditSpec("getGasPrice", "block", "Get current gas price", <<>>),
     getBlocksWithinRange |->
        NoditSpec("getBlocksWithinRange", "blockchain",
                  "Get blocks within a specific range", <<>>)]

CACHED_BITCOIN_API_SPECS ==
    [getNativeTokenBalanceByAccount |->
        NoditSpec("getNativeTokenBalanceByAccount", "native",
                  "Get Bitcoin balance for specific address", <<"accountAddress">>),
     getNativeTokenTransfersByAccount |->
        NoditSpec("getNativeTokenTransfersByAccount", "native",
                  "Get Bitcoin transaction history for address", <<"accountAddress">>),
     getUnspentTransactionOutputsByAccount |->
        NoditSpec("getUnspentTransactionOutputsByAccount", "blockchain",
                  "Get UTXO list for Bitcoin address", <<"accountAddress">>),
     getTransactionByTransactionId |->
        NoditSpec("getTransactionByTransactionId", "blockchain",
                  "Get Bitcoin transaction details by transaction ID", <<"transactionId">>),
     getTransactionsByAccount |->
        NoditSpec("getTransactionsByAccount", "blockchain",
                  "Get Bitcoin transactions for account", <<"account">>),
     getTotalTransactionCountByAccount |->
        NoditSpec("getTotalTransactionCountByAccount", "blockchain",
                  "Get total transaction count for Bitcoin address", <<"account">>),
     getBlockByHashOrNumber |->
        NoditSpec("getBlockByHashOrNumber", "blockchain",
                  "Get Bitcoin block information", <<"blockHashOrNumber">>)]

AptosQuery(name, desc, gql, vs) ==
    [queryName |-> name, description |-> desc, query |-> gql, variables |-> vs]

CACHED_APTOS_QUERIES ==
    [coin_activities |->
        AptosQuery("coin_activities", "Get coin activities for addresses or contracts",
                   "query GetCoinActivities",
                   <<"address", "coin_type", "limit", "activity_types", "start_time">>),
     current_coin_balances |->
        AptosQuery("current_coin_balances", "Get current coin balances for addresses",
                   "query GetCurrentCoinBalances", <<"address", "coin_types">>),
     coin_infos |->
        AptosQuery("coin_infos", "Get coin metadata and information",
                   "query GetCoinInfos", <<"coin_types", "creator_address">>),
     liquidity_activities |->
        AptosQuery("liquidity_activities",
                   "Get liquidity pool activities (deposits/withdrawals)",
                   "query GetLiquidityActivities",
                   <<"pool_address", "coin_types", "limit", "start_time">>),
     protocol_activities |->
        AptosQuery("protocol_activities", "Get DeFi protocol specific activities",
                   "query GetProtocolActivities",
                   <<"protocol_address", "user_address", "function_filter",
                     "start_time", "limit">>),
     token_activities |->
        AptosQuery("token_activities", "Get token (NFT) activities on Aptos",
                   "query GetTokenActivities",
                   <<"address", "token_data_id", "limit", "start_time">>)]

\* The protocol lists the handlers test with Array.includes.
NODIT_PROTOCOLS == {"ethereum", "polygon", "arbitrum", "base", "optimism"}
BITCOIN_PROTOCOLS == {"bitcoin", "dogecoin"}
APTOS_NETWORKS == {"mainnet", "testnet"}

\* The protocol and network enums of the tools' input schemas.
\* The operation ids and query names each tool's schema accepts.
NODIT_SCHEMA_OPERATION_IDS ==
    {"searchTokenContractMetadataByKeyword", "getTokenPricesByContracts",
     "getTokenTransfersByAccount", "getTokensOwnedByAccount",
     "getNativeBalanceByAccount", "getGasPrice", "getBlocksWithinRange"}

BITCOIN_SCHEMA_OPERATION_IDS ==
    {"getNativeTokenBalanceByAccount", "getNativeTokenTransfersByAccount",
     "getUnspentTransactionOutputsByAccount", "getTransactionByTransactionId",
     "getTransactionsByAccount", "getTotalTransactionCountByAccount",
     "getBlockByHashOrNumber"}

APTOS_SCHEMA_QUERY_NAMES ==
    {"coin_activities", "current_coin_balances", "coin_infos",
     "liquidity_activities", "protocol_activities", "token_activities"}

NODIT_SCHEMA_PROTOCOLS == {"ethereum", "polygon", "arbitrum", "base", "optimism"}
BITCOIN_SCHEMA_PROTOCOLS == {"bitcoin", "dogecoin"}
APTOS_SCHEMA_NETWORKS == {"mainnet", "testnet"}

\* const { ..., network = 'mainnet', ... } = input
DefaultNetwork(network) == IF network = Undefined THEN "mainnet" ELSE network

\* spec.path.replace('{protocol}', protocol).replace('{network}', network)
ResolvePath(path, protocol, network) ==
    StringReplace(StringReplace(path, "{protocol}", protocol), "{network}", network)

(***************************************************************************)
(* cached_nodit_api: the EVM indexer family.                               *)
(***************************************************************************)
\* input.name, or the destructuring default when the property is absent.
Param(input, name, default) ==
    IF name \in DOMAIN input THEN input[name] ELSE default

\* CACHED_NODIT_API_SPECS[operation_id]
NoditSpecLookup(operation_id) == JsGet(nodit_specs, operation_id)

NoditUnknownOperation(operation_id) ==
    [status |-> "error",
     message |-> <<"Unknown operation: ", operation_id>>,
     available_operations |-> ObjectKeys(nodit_specs)]

NoditProtocolSupported(protocol) == protocol \in NODIT_PROTOCOLS

\* The request body dropped from the call descriptor.
NoditCallInstruction_NoBody(operation_id, protocol, network, request_body) ==
    [tool |-> "call_nodit_api",
     parameters |-> [protocol |-> protocol, network |-> network,
                     operationId |-> operation_id, requestBody |-> [absent |-> TRUE]]]

NoditCallInstruction(operation_id, protocol, network, request_body) ==
    [tool |-> "call_nodit_api",
     parameters |-> [protocol |-> protocol, network |-> network,
                     operationId |-> operation_id, requestBody |-> request_body]]

CachedNoditApiHandler(input) ==
    LET operation_id == Param(input, "operation_id", Undefined)
        protocol == Param(input, "protocol", Undefined)
        network == DefaultNetwork(Param(input, "network", Undefined))
        request_body == Param(input, "request_body", [absent |-> TRUE])
        spec == NoditSpecLookup(operation_id)
    IN
    IF ~spec.truthy THEN NoditUnknownOperation(operation_id)
    ELSE IF JsField(spec, "path") = Undefined
    THEN [exception |-> "TypeError"]   \* undefined.replace(...)
    ELSE
        [status |-> "success",
         operation |-> operation_id,
         protocol |-> protocol,
         network |-> network,
         api_spec |-> [operationId |-> JsField(spec, "operationId"),
                       path |-> ResolvePath(JsField(spec, "path"), protocol, network),
                       method |-> JsField(spec, "method"),
                       description |-> JsField(spec, "description"),
                       requestSchema |-> JsField(spec, "requestSchema"),
                       responseSchema |-> JsField(spec, "responseSchema")],
         call_instruction |->
             NoditCallInstruction(operation_id, protocol, network, request_body),
         request_body |-> request_body,
         validation |-> [valid_request |-> TRUE,
                         protocol_supported |-> NoditProtocolSupported(protocol),
                         operation_cached |-> TRUE]]

(***************************************************************************)
(* cached_bitcoin_api: the Bitcoin indexer family.                         *)
(***************************************************************************)
\* The lookup made in one registry shared with the EVM family.
BitcoinSpecLookup_Shared(operation_id) ==
    JsGet([k \in DOMAIN nodit_specs \cup DOMAIN bitcoin_specs |->
              IF k \in DOMAIN bitcoin_specs THEN bitcoin_specs[k] ELSE nodit_specs[k]],
          operation_id)

\* CACHED_BITCOIN_API_SPECS[operation_id]
BitcoinSpecLookup(operation_id) == JsGet(bitcoin_specs, operation_id)

BitcoinUnknownOperation(operation_id) ==
    [status |-> "error",
     message |-> <<"Unknown Bitcoin operation: ", operation_id>>,
     available_operations |-> ObjectKeys(bitcoin_specs)]

\* The flag tested against the EVM list kept from the tool this one was copied from.
BitcoinProtocolSupported_EvmList(protocol) == protocol \in NODIT_PROTOCOLS

BitcoinProtocolSupported(protocol) == protocol \in BITCOIN_PROTOCOLS

CachedBitcoinApiHandler(input) ==
    LET operation_id == Param(input, "operation_id", Undefined)
        protocol == Param(input, "protocol", Undefined)
        network == DefaultNetwork(Param(input, "network", Undefined))
        request_body == Param(input, "request_body", [absent |-> TRUE])
        spec == BitcoinSpecLookup(operation_id)
    IN
    IF ~spec.truthy THEN BitcoinUnknownOperation(operation_id)
    ELSE IF JsField(spec, "path") = Undefined
    THEN [exception |-> "TypeError"]   \* undefined.replace(...)
    ELSE
        [status |-> "success",
         operation |-> operation_id,
         protocol |-> protocol,
         network |-> network,
         api_spec |-> [operationId |-> JsField(spec, "operationId"),
                       path |-> ResolvePath(JsField(spec, "path"), protocol, network),
                       method |-> JsField(spec, "method"),
                       description |-> JsField(spec, "description"),
                       requestSchema |-> JsField(spec, "requestSchema"),
                       responseSchema |-> JsField(spec, "responseSchema")],
         call_instruction |->
             NoditCallInstruction(operation_id, protocol, network, request_body),
         request_body |-> request_body,
         validation |-> [valid_request |-> TRUE,
                         protocol_supported |-> BitcoinProtocolSupported(protocol),
                         operation_cached |-> TRUE,
                         bitcoin_address_format |->
                             "Supports Legacy, P2SH, Bech32, Bech32m formats"],
         cost_efficiency |-> [cached_spec |-> TRUE,
                              no_spec_lookup_needed |-> TRUE,
                              direct_api_call_ready |-> TRUE,
                              token_savings |-> "95% reduction vs live spec retrieval"]]

(***************************************************************************)
(* cached_aptos_api: the Aptos GraphQL family.                             *)
(***************************************************************************)
\* CACHED_APTOS_QUERIES[query_name]
AptosQueryLookup(query_name) == JsGet(aptos_queries, query_name)

AptosUnknownQuery(query_name) ==
    [status |-> "error",
     message |-> <<"Unknown Aptos query: ", query_name>>,
     available_queries |-> ObjectKeys(aptos_queries)]

AptosNetworkSupported(network) == network \in APTOS_NETWORKS

AptosCallInstruction(network, query, variables) ==
    [tool |-> "call_nodit_aptos_indexer_api",
     parameters |-> [network |-> network,
                     requestBody |-> [query |-> query, variables |-> variables]]]

CachedAptosApiHandler(input) ==
    LET query_name == Param(input, "query_name", Undefined)
        network == DefaultNetwork(Param(input, "network", Undefined))
        variables == Param(input, "variables", [absent |-> TRUE])
        querySpec == AptosQueryLookup(query_name)
    IN
    IF ~querySpec.truthy THEN AptosUnknownQuery(query_name)
    ELSE
        [status |-> "success",
         query_name |-> query_name,
         network |-> network,
         graphql_spec |-> [queryName |-> JsField(querySpec, "queryName"),
                           description |-> JsField(querySpec, "description"),
                           query |-> JsField(querySpec, "query"),
                           variables |-> JsField(querySpec, "variables")],
         call_instruction |->
             AptosCallInstruction(network, JsField(querySpec, "query"), variables),
         query_variables |-> variables,
         validation |-> [valid_query |-> TRUE,
                         network_supported |-> AptosNetworkSupported(network),
                         query_cached |-> TRUE]]

(***************************************************************************)
(* symbol_converter: the symbol resolver.  The repository holds two        *)
(* definitions of SymbolConverterTool; both are modelled.                  *)
(***************************************************************************)
LOWER_CASE == <<"a", "b", "c", "d", "e", "f", "g", "h", "i", "j", "k", "l", "m",
                "n", "o", "p", "q", "r", "s", "t", "u", "v", "w", "x", "y", "z">>
UPPER_CASE == <<"A", "B", "C", "D", "E", "F", "G", "H", "I", "J", "K", "L", "M",
                "N", "O", "P", "Q", "R", "S", "T", "U", "V", "W", "X", "Y", "Z">>

UpperChar(c) ==
    IF \E i \in 1..Len(LOWER_CASE) : LOWER_CASE[i] = c
    THEN UPPER_CASE[CHOOSE i \in 1..Len(LOWER_CASE) : LOWER_CASE[i] = c]
    ELSE c

LowerChar(c) ==
    IF \E i \in 1..Len(UPPER_CASE) : UPPER_CASE[i] = c
    THEN LOWER_CASE[CHOOSE i \in 1..Len(UPPER_CASE) : UPPER_CASE[i] = c]
    ELSE c

\* The symbol used as typed.
ToUpperCase_AsTyped(symbol) == symbol

\* symbol.toUpperCase()
ToUpperCase(symbol) == [i \in 1..Len(symbol) |-> UpperChar(symbol[i])]

USDC == <<"U", "S", "D", "C">>
USDT == <<"U", "S", "D", "T">>
WETH == <<"W", "E", "T", "H">>
WBTC == <<"W", "B", "T", "C">>
DAI == <<"D", "A", "I">>
UNI == <<"U", "N", "I">>
LINK == <<"L", "I", "N", "K">>

Token(address, decimals, name) ==
    [address |-> address, decimals |-> decimals, name |-> name]

\* MAJOR_TOKENS of the first definition.
MAJOR_TOKENS ==
    [ethereum |->
        (USDC :> Token("0xA0b86a33E6417f84bDD9F42DD3a24b1A7FB5Ce15", 6, "USD Coin")) @@
        (USDT :> Token("0xdAC17F958D2ee523a2206206994597C13D831ec7", 6, "Tether USD")) @@
        (WETH :> Token("0xC02aaA39b223FE8D0A0e5C4F27eAD9083C756Cc2", 18, "Wrapped Ether")) @@
        (WBTC :> Token("0x2260FAC5E5542a773Aa44fBCfeDf7C193bc2C599", 8, "Wrapped BTC")) @@
        (DAI :> Token("0x6B175474E89094C44Da98b954EedeAC495271d0F", 18, "Dai Stablecoin")) @@
        (UNI :> Token("0x1f9840a85d5aF5bf1D1762F925BDADdC4201F984", 18, "Uniswap")) @@
        (LINK :> Token("0x514910771AF9Ca656af840dff83E8264EcF986CA", 18, "ChainLink Token")),
     polygon |->
        (USDC :> Token("0x2791Bca1f2de4661ED88A30C99A7a9449Aa84174", 6, "USD Coin")) @@
        (USDT :> Token("0xc2132D05D31c914a87C6611C10748AEb04B58e8F", 6, "Tether USD")) @@
        (WETH :> Token("0x7ceB23fD6bC0adD59E62ac25578270cFf1b9f619", 18, "Wrapped Ether")) @@
        (WBTC :> Token("0x1BFD67037B42Cf73acF2047067bd4F2C47D9BfD6", 8, "Wrapped BTC")) @@
        (DAI :> Token("0x8f3Cf7ad23Cd3CaDbD9735AFf958023239c6A063", 18, "Dai Stablecoin")) @@
        (UNI :> Token("0xb33EaAd8d922B1083446DC23f610c2567fB5180f", 18, "Uniswap")) @@
        (LINK :> Token("0x53E0bca35eC356BD5ddDFebbD1Fc0fD03FaBad39", 18, "ChainLink Token")),
     arbitrum |->
        (USDC :> Token("0xaf88d065e77c8cC2239327C5EDb3A432268e5831", 6, "USD Coin")) @@
        (USDT :> Token("0xFd086bC7CD5C481DCC9C85ebE478A1C0b69FCbb9", 6, "Tether USD")) @@
        (WETH :> Token("0x82aF49447D8a07e3bd95BD0d56f35241523fBab1", 18, "Wrapped Ether")) @@
        (WBTC :> Token("0x2f2a2543B76A4166549F7aaB2e75Bef0aefC5B0f", 8, "Wrapped BTC")) @@
        (DAI :> Token("0xDA10009cBd5D07dd0CeCc66161FC93D7c9000da1", 18, "Dai Stablecoin")) @@
        (UNI :> Token("0xFa7F8980b0f1E64A2062791cc3b0871572f1F7f0", 18, "Uniswap")) @@
        (LINK :> Token("0xf97f4df75117a78c1A5a0DBb814Af92458539FB4", 18, "ChainLink Token")),
     base |->
        (USDC :> Token("0x833589fCD6eDb6E08f4c7C32D4f71b54bdA02913", 6, "USD Coin")) @@
        (WETH :> Token("0x4200000000000000000000000000000000000006", 18, "Wrapped Ether")) @@
        (DAI :> Token("0x50c5725949A6F0c72E6C4a641F24049A917DB0Cb", 18, "Dai Stablecoin")),
     optimism |->
        (USDC :> Token("0x7F5c764cBc14f9669B88837ca1490cCa17c31607", 6, "USD Coin")) @@
        (USDT :> Token("0x94b008aA00579c1307B0EF2c499aD98a8ce58e58", 6, "Tether USD")) @@
        (WETH :> Token("0x4200000000000000000000000000000000000006", 18, "Wrapped Ether")) @@
        (WBTC :> Token("0x68f180fcCe6836688e9084f035309E29Bf0A2095", 8, "Wrapped BTC")) @@
        (DAI :> Token("0xDA10009cBd5D07dd0CeCc66161FC93D7c9000da1", 18, "Dai Stablecoin")) @@
        (UNI :> Token("0x6fd9d7AD17242c41f7131d257212c54A0e816691", 18, "Uniswap")) @@
        (LINK :> Token("0x350a791Bfc2C21F9Ed5d10980Dad2e2638ffa7f6", 18, "ChainLink Token"))]

\* MAJOR_TOKENS of the second definition: symbol -> address only.
MAJOR_TOKENS_2 ==
    [chain \in DOMAIN MAJOR_TOKENS |->
        [sym \in DOMAIN MAJOR_TOKENS[chain] |-> MAJOR_TOKENS[chain][sym].address]]

\* Inherited property names, spelled as character sequences.
OBJECT_PROTOTYPE_KEY_CHARS ==
    {<<"c", "o", "n", "s", "t", "r", "u", "c", "t", "o", "r">>,
     <<"v", "a", "l", "u", "e", "O", "f">>}

\* MAJOR_TOKENS[chain]?.[upperSymbol]: the chain is read as a property of the
\* outer object and the symbol as a property of the chain's table; both reads
\* see inherited names.  A built-in reached through an inherited chain name
\* has no property spelled in upper case only.
MajorTokenLookup(tokens, chain, upperSymbol) ==
    LET byChain == JsGet(tokens, chain) IN
    IF byChain.own /\ upperSymbol \in DOMAIN byChain.value
    THEN [truthy |-> TRUE, own |-> TRUE, value |-> byChain.value[upperSymbol]]
    ELSE IF byChain.own /\ upperSymbol \in OBJECT_PROTOTYPE_KEY_CHARS
    THEN [truthy |-> TRUE, own |-> FALSE, value |-> [builtin |-> upperSymbol]]
    ELSE [truthy |-> FALSE, own |-> FALSE, value |-> [builtin |-> Undefined]]

\* An operation id the EVM registry does not hold.
SEARCH_OPERATION_Unregistered == "searchTokenContractsByKeyword"

SEARCH_OPERATION == "searchTokenContractMetadataByKeyword"

SearchRequestBody(upperSymbol) == [keyword |-> upperSymbol, page |-> 1, rpp |-> 20]

\* next_step of the first definition: addressed to cached_nodit_api.
NextStep(chain, upperSymbol) ==
    [action |-> "call_cached_nodit_api",
     tool |-> "cached_nodit_api",
     parameters |-> [operation_id |-> SEARCH_OPERATION,
                     protocol |-> chain,
                     network |-> "mainnet",
                     request_body |-> SearchRequestBody(upperSymbol)],
     expected_result |-> "List of matching token contracts with metadata"]

\* next_step of the second definition: addressed to call_nodit_api.
NextStep2(chain, upperSymbol) ==
    [action |-> "call_nodit_mcp",
     tool |-> "call_nodit_api",
     parameters |-> [protocol |-> chain,
                     network |-> "mainnet",
                     operationId |-> SEARCH_OPERATION,
                     requestBody |-> SearchRequestBody(upperSymbol)],
     expected_result |-> "List of matching token contracts with metadata"]

ProcessResult(chain, upperSymbol) ==
    [filter_criteria |-> <<"Exact symbol match preferred",
                           "Valid contract metadata required",
                           "Non-zero total supply preferred",
                           "Verify contract type is ERC20">>,
     scoring |-> [exact_symbol_match |-> 100, partial_symbol_match |-> 50,
                  has_logo_url |-> 10, verified_contract |-> 20],
     return_format |-> [status |-> "success", symbol |-> upperSymbol, chain |-> chain,
                        source |-> "nodit_api_search"]]

ProcessResult2(chain, upperSymbol) ==
    [filter_criteria |-> <<"Exact symbol match preferred",
                           "Valid contract metadata required",
                           "Non-zero total supply preferred">>,
     return_format |-> [status |-> "success", symbol |-> upperSymbol, chain |-> chain]]

Fallback(chain, upperSymbol) ==
    [if_no_results |->
        [status |-> "not_found", symbol |-> upperSymbol, chain |-> chain,
         suggestions |-> <<"Verify symbol spelling",
                           "Check if token exists on this chain",
                           "Try full token name instead",
                           "Ensure token is an ERC20 standard">>]]

\* The no-candidate outcome without suggestions.
Fallback2_NoSuggestions(chain, upperSymbol) ==
    [if_no_results |->
        [status |-> "not_found", symbol |-> upperSymbol, chain |-> chain,
         suggestions |-> <<>>]]

Fallback2(chain, upperSymbol) ==
    [if_no_results |->
        [status |-> "not_found", symbol |-> upperSymbol, chain |-> chain,
         suggestions |-> <<"Verify spelling", "Check chain", "Try full name">>]]

\* SymbolConverterTool.handler, first definition.
SymbolConverterHandler(input) ==
    LET symbol == input.symbol
        chain == Param(input, "chain", Undefined)
        verified_only == Param(input, "verified_only", TRUE)
        upperSymbol == ToUpperCase(symbol)
        token == MajorTokenLookup(MAJOR_TOKENS, chain, upperSymbol)
    IN
    IF verified_only /\ token.truthy
    THEN [status |-> "success", symbol |-> upperSymbol, chain |-> chain,
          contract_address |-> JsField(token, "address"),
          name |-> JsField(token, "name"),
          decimals |-> JsField(token, "decimals"),
          verified |-> TRUE,
          source |-> "cached_major_tokens",
          confidence |-> "high"]
    ELSE [status |-> "instruction",
          message |-> <<"Token ", upperSymbol, " lookup required - using cached Nodit API">>,
          task |-> "token_symbol_lookup",
          symbol |-> upperSymbol,
          chain |-> chain,
          next_step |-> NextStep(chain, upperSymbol),
          process_result |-> ProcessResult(chain, upperSymbol),
          fallback |-> Fallback(chain, upperSymbol)]

\* SymbolConverterTool.handler, second definition.
SymbolConverterHandler2(input) ==
    LET symbol == input.symbol
        chain == Param(input, "chain", Undefined)
        verified_only == Param(input, "verified_only", TRUE)
        upperSymbol == ToUpperCase(symbol)
        token == MajorTokenLookup(MAJOR_TOKENS_2, chain, upperSymbol)
    IN
    IF verified_only /\ token.truthy
    THEN [status |-> "success", symbol |-> upperSymbol, chain |-> chain,
          contract_address |-> token.value,
          verified |-> TRUE,
          source |-> "cached_major_tokens",
          confidence |-> "high"]
    ELSE [status |-> "instruction",
          message |-> <<"Token ", upperSymbol, " search required via Nodit MCP">>,
          task |-> "token_symbol_lookup",
          symbol |-> upperSymbol,
          chain |-> chain,
          next_step |-> NextStep2(chain, upperSymbol),
          process_result |-> ProcessResult2(chain, upperSymbol),
          fallback |-> Fallback2(chain, upperSymbol)]

(***************************************************************************)
(* token_search_by_name: the keyword-search plan of the token-intelligence *)
(* tool set.  A line of relevance_scoring such as "Exact symbol match: 100 *)
(* points" is the record of its criterion and its points; a line that      *)
(* starts its points with "+" is a bonus.                                  *)
(***************************************************************************)
PRICE_OPERATION == "getTokenPricesByContracts"

RelevanceLine(criterion, points, bonus) ==
    [criterion |-> criterion, points |-> points, bonus |-> bonus]

RELEVANCE_SCORING ==
    <<RelevanceLine("Exact symbol match", 100, FALSE),
      RelevanceLine("Partial symbol match", 75, FALSE),
      RelevanceLine("Exact name match", 90, FALSE),
      RelevanceLine("Partial name match", 50, FALSE),
      RelevanceLine("Has price data", 10, TRUE),
      RelevanceLine("High total supply", 5, TRUE)>>

SearchProcessing ==
    [relevance_scoring |-> RELEVANCE_SCORING,
     quality_filtering |-> <<"Remove tokens with suspicious names",
                             "Filter out obvious scam tokens",
                             "Prioritize tokens with price data",
                             "Sort by relevance score + market cap">>,
     result_enhancement |-> <<"Add price and market data where available",
                              "Calculate basic metrics (market cap)",
                              "Format numbers for readability",
                              "Add confidence scores for matches">>]

TokenSearchExecutionPlan(query, chain, limit) ==
    <<[step |-> 1,
       action |-> "Search token contracts by keyword",
       tool |-> "cached_nodit_api",
       parameters |-> [operation_id |-> SEARCH_OPERATION,
                       protocol |-> chain,
                       network |-> "mainnet",
                       request_body |-> [keyword |-> query, page |-> 1,
                                         rpp |-> limit, withCount |-> TRUE]],
       expected_result |-> "List of matching token contracts with metadata"],
      [step |-> 2,
       action |-> "Get price data for found tokens",
       tool |-> "cached_nodit_api",
       parameters |-> [operation_id |-> PRICE_OPERATION,
                       protocol |-> chain,
                       network |-> "mainnet",
                       request_body |->
                           [contractAddresses |->
                                "Extract addresses from step 1 results (max 100)",
                            currency |-> "USD"]],
       purpose |-> "Enrich results with current price and market data"]>>

\* TokenSearchByNameTool.handler.  The handler reads limit without a default.
TokenSearchByNameHandler(input) ==
    LET query == Param(input, "query", Undefined)
        chain == Param(input, "chain", Undefined)
        limit == Param(input, "limit", Undefined)
    IN
    [status |-> "instruction",
     task |-> "token_search",
     overview |-> [action |-> "Search tokens by name/symbol query",
                   search_query |-> query,
                   chain |-> chain,
                   max_results |-> limit],
     execution_plan |-> TokenSearchExecutionPlan(query, chain, limit),
     search_processing |-> SearchProcessing]

(***************************************************************************)
(* The oracle feed mapping and the oracle price client.                    *)
(*                                                                         *)
(* A JavaScript number is the record [num, den] of a fraction in lowest    *)
(* terms, or NaN.  The decimal string the oracle sends for a mantissa is   *)
(* [digits |-> n] when it spells the integer n and [text |-> s] otherwise. *)
(***************************************************************************)
BTC == <<"B", "T", "C">>
ETH == <<"E", "T", "H">>
SOL == <<"S", "O", "L">>
SUI == <<"S", "U", "I">>
MATIC == <<"M", "A", "T", "I", "C">>
AVAX == <<"A", "V", "A", "X">>
BNB == <<"B", "N", "B">>
ADA == <<"A", "D", "A">>
AAVE == <<"A", "A", "V", "E">>
CRV == <<"C", "R", "V">>
DOGE == <<"D", "O", "G", "E">>
SHIB == <<"S", "H", "I", "B">>
APT == <<"A", "P", "T">>

Feed(feedId, description) == [feedId |-> feedId, description |-> description]

TOKEN_SYMBOL_TO_PYTH_FEED ==
    (BTC :> Feed("0xe62df6c8b4a85fe1a67db44dc12de5db330f7ac66b72dc658afedf0f4a415b43", "Bitcoin")) @@
    (ETH :> Feed("0xff61491a931112ddf1bd8147cd1b641375f79f5825126d665480874634fd0ace", "Ethereum")) @@
    (SOL :> Feed("0xef0d8b6fda2ceba41da15d4095d1da392a0d2f8ed0c6c7bc0f4cfac8c280b56d", "Solana")) @@
    (SUI :> Feed("0x23d7315113f5b1d3ba7a83604c44b94d79f4fd69af77f804fc7f920a6dc65744", "Sui")) @@
    (USDT :> Feed("0x2b89b9dc8fdf9f34709a5b106b472f0f39bb6ca9ce04b0fd7f2e971688e2e53b", "Tether USD")) @@
    (USDC :> Feed("0xeaa020c61cc479712813461ce153894a96a6c00b21ed0cfc2798d1f9a9e9c94a", "USD Coin")) @@
    (DAI :> Feed("0xb0948a5e5313200c632b51bb5ca32f6de0d36e9950a942d19751e833f70dabfd", "Dai Stablecoin")) @@
    (MATIC :> Feed("0x5de33a9112c2b700b8d30b8a3402c103578ccfa2765696471cc672bd5cf6ac52", "Polygon")) @@
    (AVAX :> Feed("0x93da3352f9f1d105fdfe4971cfa80e9dd777bfc5d0f683ebb6e1294b92137bb7", "Avalanche")) @@
    (BNB :> Feed("0x2f95862b045670cd22bee3114c39763a4a08beeb663b145d283c31d7d1101c4f", "BNB")) @@
    (ADA :> Feed("0x2a01deaec9e51a579277b34b122399984d0bbf57e2458a7e42fecd2829867a0d", "Cardano")) @@
    (UNI :> Feed("0x78d185a741d07edb3aeb9c639787bd0b1b03000b6eb924e9a0e39e0ba97e5ebe", "Uniswap")) @@
    (LINK :> Feed("0x8ac0c70fff57e9aefdf5edf44b51d62c2d433653cbb2cf5cc06bb115af04d221", "Chainlink")) @@
    (AAVE :> Feed("0x2b9ab1e972a281585084148ba1389800799bd4be63b957507db1349314e47445", "Aave")) @@
    (CRV :> Feed("0xa19d04ac696c7a6616d291c7e5d1377cc8be437c327b75adb5dc1bad745fcae8", "Curve DAO Token")) @@
    (DOGE :> Feed("0xdcef50dd0a4cd2dcc17e45df1676dcb336a11a61c69df7a0299b0150c672d25c", "Dogecoin")) @@
    (SHIB :> Feed("0xf0d57deca57b3da2fe63a493f4c25925fdfd8edf834b20f78a5404b4da80c8da", "Shiba Inu")) @@
    (APT :> Feed("0x03ae4db29ed4ae33d323568895aa00337e658e348b37509f5372ae51f0af00d5", "Aptos"))

\* The mapping read with the symbol as typed.
getPythFeedForSymbol_CaseSensitive(symbol) ==
    IF symbol \in DOMAIN pyth_feeds
    THEN [truthy |-> TRUE, own |-> TRUE, value |-> pyth_feeds[symbol]]
    ELSE [truthy |-> FALSE, own |-> FALSE, value |-> [builtin |-> "null"]]

\* getPythFeedForSymbol: TOKEN_SYMBOL_TO_PYTH_FEED[symbol.toUpperCase()] || null.
\* The read sees inherited names; an inherited value is truthy.
getPythFeedForSymbol(symbol) ==
    LET key == ToUpperCase(symbol) IN
    IF key \in DOMAIN pyth_feeds
    THEN [truthy |-> TRUE, own |-> TRUE, value |-> pyth_feeds[key]]
    ELSE IF key \in OBJECT_PROTOTYPE_KEY_CHARS
    THEN [truthy |-> TRUE, own |-> FALSE, value |-> [builtin |-> key]]
    ELSE [truthy |-> FALSE, own |-> FALSE, value |-> [builtin |-> "null"]]

\* getPythFeedsForSymbols: one pass over the symbols, in order.
RECURSIVE getPythFeedsForSymbols(_)
getPythFeedsForSymbols(symbols) ==
    IF symbols = <<>> THEN [pythFeeds |-> <<>>, noditSymbols |-> <<>>]
    ELSE LET symbol == Head(symbols)
             pythFeed == getPythFeedForSymbol(symbol)
             rest == getPythFeedsForSymbols(Tail(symbols))
         IN
         IF pythFeed.truthy
         THEN [pythFeeds |-> <<[symbol |-> ToUpperCase(symbol),
                                feedId |-> JsField(pythFeed, "feedId"),
                                description |-> JsField(pythFeed, "description")]>>
                             \o rest.pythFeeds,
               noditSymbols |-> rest.noditSymbols]
         ELSE [pythFeeds |-> rest.pythFeeds,
               noditSymbols |-> <<symbol>> \o rest.noditSymbols]

\* chain.toLowerCase()
ToLowerCase(chain) == [i \in 1..Len(chain) |-> LowerChar(chain[i])]

ETHEREUM == <<"e", "t", "h", "e", "r", "e", "u", "m">>
POLYGON == <<"p", "o", "l", "y", "g", "o", "n">>
AVALANCHE == <<"a", "v", "a", "l", "a", "n", "c", "h", "e">>
ARBITRUM == <<"a", "r", "b", "i", "t", "r", "u", "m">>
BASE == <<"b", "a", "s", "e">>
OPTIMISM == <<"o", "p", "t", "i", "m", "i", "s", "m">>
KAIA == <<"k", "a", "i", "a">>

CHAIN_NATIVE_TOKEN_SYMBOLS ==
    (ETHEREUM :> ETH) @@
    (POLYGON :> MATIC) @@
    (AVALANCHE :> AVAX) @@
    (ARBITRUM :> ETH) @@
    (BASE :> ETH) @@
    (OPTIMISM :> ETH) @@
    (KAIA :> ETH)

\* Inherited property names that are their own lower-case form.
OBJECT_PROTOTYPE_LOWER_CASE_KEYS ==
    {<<"c", "o", "n", "s", "t", "r", "u", "c", "t", "o", "r">>,
     <<"_", "_", "p", "r", "o", "t", "o", "_", "_">>}

\* getNativeTokenSymbol: CHAIN_NATIVE_TOKEN_SYMBOLS[chain.toLowerCase()] || null.
\* The read sees inherited names; an inherited value is truthy.
getNativeTokenSymbol(chain) ==
    LET key == ToLowerCase(chain) IN
    IF key \in DOMAIN CHAIN_NATIVE_TOKEN_SYMBOLS
    THEN [truthy |-> TRUE, own |-> TRUE, value |-> CHAIN_NATIVE_TOKEN_SYMBOLS[key]]
    ELSE IF key \in OBJECT_PROTOTYPE_LOWER_CASE_KEYS
    THEN [truthy |-> TRUE, own |-> FALSE, value |-> [builtin |-> key]]
    ELSE [truthy |-> FALSE, own |-> FALSE, value |-> [builtin |-> "null"]]

\* getNativeTokenPythFeed: null when the chain has no native symbol or the
\* symbol has no feed, else the feed with the symbol.  A symbol read through
\* the prototype chain is no string: symbol.toUpperCase is not a function
\* and getPythFeedForSymbol throws.
getNativeTokenPythFeed(chain) ==
    LET symbol == getNativeTokenSymbol(chain) IN
    IF ~symbol.truthy THEN [kind |-> "returned", null |-> TRUE]
    ELSE IF ~symbol.own
    THEN [kind |-> "thrown", null |-> FALSE,
          message |-> "symbol.toUpperCase is not a function"]
    ELSE LET feed == getPythFeedForSymbol(symbol.value) IN
         IF ~feed.truthy THEN [kind |-> "returned", null |-> TRUE]
         ELSE [kind |-> "returned", null |-> FALSE,
               value |-> [feedId |-> JsField(feed, "feedId"),
                          description |-> JsField(feed, "description"),
                          symbol |-> symbol.value]]

NaN == [nan |-> TRUE]

IsNaN(x) == "nan" \in DOMAIN x

RECURSIVE GCD(_, _)
GCD(a, b) == IF b = 0 THEN a ELSE GCD(b, a % b)

Abs(n) == IF n < 0 THEN -n ELSE n

\* The number num/den, den > 0, in lowest terms.
Fraction(num, den) ==
    LET g == GCD(Abs(num), den) IN [num |-> num \div g, den |-> den \div g]

RECURSIVE Pow10(_)
Pow10(n) == IF n = 0 THEN 1 ELSE 10 * Pow10(n - 1)

\* Number(text)
Number(text) ==
    IF "digits" \in DOMAIN text THEN Fraction(text.digits, 1) ELSE NaN

Times(x, n) == IF IsNaN(x) THEN NaN ELSE Fraction(x.num * n, x.den)

DividedBy(x, n) == IF IsNaN(x) THEN NaN ELSE Fraction(x.num, x.den * n)

\* x || null for a number x: zero and NaN are falsy.
\* x ?? null: only a missing value becomes null.
OrNull_ZeroKept(x) == IF IsNaN(x) THEN [null |-> TRUE] ELSE x

OrNull(x) == IF IsNaN(x) \/ x.num = 0 THEN [null |-> TRUE] ELSE x

IsNull(x) == "null" \in DOMAIN x

\* new Date(seconds * 1000).toISOString(): the instant, named by its
\* milliseconds since the epoch.
ToISOString(seconds) == [iso_of_ms |-> seconds * 1000]

\* The price of one update: the mantissa times or divided by 10^|expo|.
FormatPrice(ema_price) ==
    IF ema_price.expo > 0
    THEN Times(Number(ema_price.price), Pow10(Abs(ema_price.expo)))
    ELSE DividedBy(Number(ema_price.price), Pow10(Abs(ema_price.expo)))

\* formatPythPrice: parseFloat(price) * Math.pow(10, expo), as the string of
\* that number.
formatPythPrice(price, expo) ==
    LET priceNumber == Number(price)
        formattedPrice == IF expo >= 0 THEN Times(priceNumber, Pow10(expo))
                          ELSE DividedBy(priceNumber, Pow10(-expo))
    IN [string_of |-> formattedPrice]

FormatUpdate(update) ==
    [id |-> update.id,
     price |-> OrNull(FormatPrice(update.ema_price)),
     publishTime |-> ToISOString(update.ema_price.publish_time)]

\* getLatestPriceUpdates passing the caught error's message as it is.
getLatestPriceUpdates_MessageOnly(response) ==
    IF "thrown" \in DOMAIN response
    THEN [success |-> FALSE, error |-> response.thrown]
    ELSE IF "parsed" \notin DOMAIN response
    THEN [success |-> TRUE, prices |-> <<>>]
    ELSE IF \E i \in 1..Len(response.parsed) :
                "ema_price" \notin DOMAIN response.parsed[i]
    THEN [success |-> FALSE,
          error |-> "Cannot read properties of undefined (reading 'expo')"]
    ELSE [success |-> TRUE,
          prices |-> [i \in 1..Len(response.parsed) |->
                          FormatUpdate(response.parsed[i])]]

\* getLatestPriceUpdates, given what client.getLatestPriceUpdates did: it
\* threw [thrown |-> message], or it returned a response that may hold a
\* parsed list.  Reading ema_price.expo of an update without ema_price
\* throws a TypeError inside the try block.
getLatestPriceUpdates(response) ==
    IF "thrown" \in DOMAIN response
    THEN [success |-> FALSE,
          error |-> IF response.thrown = "" THEN "Failed to get price updates"
                    ELSE response.thrown]
    ELSE IF "parsed" \notin DOMAIN response
    THEN [success |-> TRUE, prices |-> <<>>]
    ELSE IF \E i \in 1..Len(response.parsed) :
                "ema_price" \notin DOMAIN response.parsed[i]
    THEN [success |-> FALSE,
          error |-> "Cannot read properties of undefined (reading 'expo')"]
    ELSE [success |-> TRUE,
          prices |-> [i \in 1..Len(response.parsed) |->
                          FormatUpdate(response.parsed[i])]]

\* searchPriceFeeds, given what client.getPriceFeeds did: it threw
\* [thrown |-> message] or it returned a list of feeds.
searchPriceFeeds(response) ==
    IF "thrown" \in DOMAIN response
    THEN [success |-> FALSE,
          error |-> IF response.thrown = "" THEN "Failed to search price feeds"
                    ELSE response.thrown]
    ELSE [success |-> TRUE, priceFeeds |-> response.priceFeeds]

(***************************************************************************)
(* get_token_prices_by_symbols: the price resolution engine.  The handler  *)
(* suspends once, on the oracle price client; what it holds across the     *)
(* suspension is kept in pythFeeds and noditSymbols.                       *)
(***************************************************************************)
FeedIds(feeds) == [i \in 1..Len(feeds) |-> feeds[i].feedId]

FeedSymbols(feeds) == [i \in 1..Len(feeds) |-> feeds[i].symbol]

\* The first entry of execution_plan, pushed when a symbol has a feed.
PythPlanStep(feeds) ==
    [step |-> 1,
     action |-> "Get prices from Pyth for supported symbols",
     tool |-> "pyth_get_prices",
     parameters |-> [priceIds |-> FeedIds(feeds)],
     symbols_covered |->
         [i \in 1..Len(feeds) |-> <<feeds[i].symbol, " (", feeds[i].description, ")">>]]

\* A quote that prices a feed without an update at 1.
PythQuote_DefaultPrice(feeds, prices, index) ==
    LET price == prices[index]
        feed == feeds[index]
    IN
    [source |-> "pyth",
     symbol |-> feed.symbol,
     description |-> feed.description,
     price |-> IF IsNull(price.price) THEN Fraction(1, 1) ELSE price.price,
     currency |-> "USD",
     last_updated |-> price.publishTime,
     feed_id |-> feed.feedId]

\* The quote pushed for prices[index]: the feed is pythFeeds[index].
PythQuote(feeds, prices, index) ==
    LET price == prices[index]
        feed == feeds[index]
    IN
    [source |-> "pyth",
     symbol |-> feed.symbol,
     description |-> feed.description,
     price |-> price.price,
     currency |-> "USD",
     last_updated |-> price.publishTime,
     feed_id |-> feed.feedId]

\* pythResult.prices.forEach: an index past the end of pythFeeds is skipped.
PythQuotes(feeds, outcome) ==
    IF outcome.kind = "returned" /\ outcome.result.success
        /\ "prices" \in DOMAIN outcome.result
    THEN LET prices == outcome.result.prices
             n == IF Len(prices) < Len(feeds) THEN Len(prices) ELSE Len(feeds)
         IN [i \in 1..n |-> PythQuote(feeds, prices, i)]
    ELSE <<>>

\* The entry the catch block pushes.
PythFailedStep(feeds, outcome, step) ==
    [step |-> step,
     action |-> "Pyth price fetch failed, add to fallback",
     error |-> outcome.message,
     fallback_symbols |-> FeedSymbols(feeds)]

\* noditSymbols after the try block: the catch block appends the symbols of
\* pythFeeds.
RemainingSymbols(feeds, nodit, outcome) ==
    IF feeds # <<>> /\ outcome.kind = "thrown"
    THEN nodit \o FeedSymbols(feeds)
    ELSE nodit

SearchRecommendation ==
    [tool |-> "token_search_by_name",
     purpose |-> "Find contract addresses for symbols",
     parameters |-> [query |-> "symbol_from_list",
                     chain |-> "ethereum",
                     limit |-> 5]]

\* The price step asking for USD whatever was requested.
PriceRecommendation_UsdOnly(currency) ==
    [tool |-> "cached_nodit_api",
     purpose |-> "Get prices once contract addresses are resolved",
     parameters |-> [operation_id |-> PRICE_OPERATION,
                     protocol |-> "ethereum",
                     network |-> "mainnet",
                     request_body |-> [contractAddresses |-> "resolved_from_search",
                                       currency |-> "USD"]]]

PriceRecommendation(currency) ==
    [tool |-> "cached_nodit_api",
     purpose |-> "Get prices once contract addresses are resolved",
     parameters |-> [operation_id |-> PRICE_OPERATION,
                     protocol |-> "ethereum",
                     network |-> "mainnet",
                     request_body |-> [contractAddresses |-> "resolved_from_search",
                                       currency |-> currency]]]

\* The entry of execution_plan for the symbols without a price.
ManualPlanStep(remaining, currency, step) ==
    [step |-> step,
     action |-> "Search and get prices for remaining symbols using token intelligence tools",
     symbols |-> remaining,
     recommendations |-> <<SearchRecommendation, PriceRecommendation(currency)>>]

\* The entry of price_results for the symbols without a price.
ManualResult(remaining) ==
    [source |-> "manual_resolution_needed",
     action |-> "Resolve symbols to contract addresses then get prices",
     symbols |-> remaining,
     instruction |-> "Use token_search_by_name for each symbol to find contract addresses, then use cached_nodit_api with getTokenPricesByContracts"]

ExecutionPlan(feeds, remaining, outcome, currency) ==
    LET first == IF feeds # <<>> THEN <<PythPlanStep(feeds)>> ELSE <<>>
        second == IF feeds # <<>> /\ outcome.kind = "thrown"
                  THEN Append(first, PythFailedStep(feeds, outcome, Len(first) + 1))
                  ELSE first
    IN
    IF remaining # <<>>
    THEN Append(second, ManualPlanStep(remaining, currency, Len(second) + 1))
    ELSE second

PriceResults(feeds, remaining, outcome) ==
    IF remaining # <<>>
    THEN Append(PythQuotes(feeds, outcome), ManualResult(remaining))
    ELSE PythQuotes(feeds, outcome)

\* Math.round(x) for a number x >= 0.
MathRound(x) ==
    IF IsNaN(x) THEN NaN ELSE Fraction((2 * x.num + x.den) \div (2 * x.den), 1)

\* a / b * 100 in JavaScript: 0 / 0 is NaN.
Percentage(a, b) == IF b = 0 THEN NaN ELSE Fraction(a * 100, b)

OptimizationSummary(feeds, remaining, symbols) ==
    [pyth_coverage |-> [covered |-> Len(feeds), total |-> Len(symbols),
                        percent |-> MathRound(Percentage(Len(feeds), Len(symbols)))],
     instant_prices |-> IF Len(feeds) > 0 THEN "Got prices instantly via Pyth"
                        ELSE "No instant prices available",
     manual_work |-> IF Len(remaining) > 0 THEN "symbols need contract address resolution"
                     ELSE "No manual work needed"]

NextSteps(remaining) ==
    IF Len(remaining) > 0
    THEN <<"For each unsupported symbol, use token_search_by_name to find contract addresses",
           "Collect all contract addresses and use cached_nodit_api with getTokenPricesByContracts",
           "Merge Pyth results with Nodit results for complete price data">>
    ELSE <<"All prices obtained from Pyth instantly", "No additional steps needed">>

\* GetTokenPricesBySymbolsTool.handler from the end of the try block on:
\* feeds and nodit are the partition, outcome is what awaiting the oracle
\* price client gave (nothing when no symbol has a feed).
GetTokenPricesBySymbolsHandler(input, feeds, nodit, outcome) ==
    LET symbols == input.symbols
        currency == Param(input, "currency", "USD")
        remaining == RemainingSymbols(feeds, nodit, outcome)
    IN
    [status |-> "success",
     task |-> "symbol_based_pricing",
     overview |-> [total_symbols |-> Len(symbols),
                   pyth_supported |-> Len(feeds),
                   manual_resolution_needed |-> Len(remaining),
                   currency |-> currency],
     execution_plan |-> ExecutionPlan(feeds, remaining, outcome, currency),
     price_results |-> PriceResults(feeds, remaining, outcome),
     optimization_summary |-> OptimizationSummary(feeds, remaining, symbols),
     next_steps |-> NextSteps(remaining)]

(***************************************************************************)
(* get_native_token_price_by_chain.  getNativeTokenPythFeed runs before    *)
(* the try block; the handler suspends on getLatestPriceUpdates.           *)
(***************************************************************************)
\* The chains the tool's schema accepts.
NATIVE_SCHEMA_CHAINS == {ETHEREUM, POLYGON, ARBITRUM, BASE, OPTIMISM, AVALANCHE, KAIA}

NativeFeedMissing(chain) ==
    [status |-> "error",
     message |-> <<"No Pyth feed available for ", chain, " native token">>,
     chain |-> chain,
     suggestion |-> "Use token_search_by_name to find the native token contract address, then use cached_nodit_api"]

NativePriceFailed(chain, feed, message) ==
    [status |-> "error",
     message |-> message,
     chain |-> chain,
     symbol |-> feed.symbol,
     feed_id |-> feed.feedId]

NativePriceFound(chain, feed, prices) ==
    LET price == prices[1] IN
    [status |-> "success",
     chain |-> chain,
     native_token |-> [symbol |-> feed.symbol,
                       description |-> feed.description,
                       price |-> price.price,
                       currency |-> "USD",
                       last_updated |-> price.publishTime,
                       feed_id |-> feed.feedId,
                       source |-> "pyth"],
     cost_calculation_ready |-> TRUE,
     usage_examples |->
        [gas_cost_usd |-> <<"gas_amount_in_", ToLowerCase(feed.symbol), " * ", price.price>>,
         savings_calculation |-> <<"(old_gas - new_gas) * ", price.price>>,
         transaction_cost |-> <<"gas_used * gas_price_gwei * 1e-9 * ", price.price>>]]

\* The handler, given what getNativeTokenPythFeed did and, when the oracle
\* was asked, what awaiting getLatestPriceUpdates gave.
GetNativeTokenPriceByChainHandler(input, nativeFeed, outcome) ==
    LET chain == input.chain IN
    IF nativeFeed.kind = "thrown" THEN [exception |-> "TypeError"]
    ELSE IF nativeFeed.null THEN NativeFeedMissing(chain)
    ELSE IF outcome.kind = "thrown"
    THEN NativePriceFailed(chain, nativeFeed.value, outcome.message)
    ELSE LET result == outcome.result IN
         IF ~result.success \/ "prices" \notin DOMAIN result \/ Len(result.prices) = 0
         THEN NativePriceFailed(chain, nativeFeed.value,
                                IF "error" \in DOMAIN result /\ result.error # ""
                                THEN result.error ELSE "No price data available")
         ELSE NativePriceFound(chain, nativeFeed.value, result.prices)

(***************************************************************************)
(* pyth_get_prices and pyth_search_price_feeds: the feed tools.            *)
(***************************************************************************)
GetPriceUpdatesHandler(input, outcome) ==
    LET result == outcome.result IN
    IF ~result.success
    THEN [status |-> "error", message |-> result.error]
    ELSE [status |-> "success", prices |-> result.prices]

\* feed.attributes?.name || 'Unknown'
FeedAttribute(feed, name) ==
    IF "attributes" \in DOMAIN feed /\ name \in DOMAIN feed.attributes
        /\ feed.attributes[name] # ""
    THEN feed.attributes[name]
    ELSE "Unknown"

FormatFeed(feed) ==
    [id |-> feed.id,
     symbol |-> FeedAttribute(feed, "display_symbol"),
     baseCurrency |-> FeedAttribute(feed, "base"),
     quoteCurrency |-> FeedAttribute(feed, "quote_currency"),
     assetType |-> FeedAttribute(feed, "asset_type")]

SearchPriceFeedsHandler(input, outcome) ==
    LET result == outcome.result IN
    IF ~result.success
    THEN [status |-> "error", message |-> result.error]
    ELSE LET formattedFeeds == [i \in 1..Len(result.priceFeeds) |->
                                   FormatFeed(result.priceFeeds[i])]
         IN [status |-> "success",
             priceFeeds |-> formattedFeeds,
             count |-> Len(formattedFeeds)]

(***************************************************************************)
(* Requests.  The handlers are exported functions taking any record, so    *)
(* the inputs include values outside the tools' zod schemas.  The server   *)
(* runs a handler to completion before it takes the next request           *)
(* (single-threaded event loop, no await in these handlers).               *)
(***************************************************************************)
MaxBodies == 2
MaxExtraLen == 2

REGISTERED_IDS ==
    DOMAIN CACHED_NODIT_API_SPECS \cup DOMAIN CACHED_BITCOIN_API_SPECS
        \cup DOMAIN CACHED_APTOS_QUERIES

OperationIdInputs == REGISTERED_IDS \cup {"constructor", "toString", "unknownOperation"}

ProtocolInputs == {"ethereum", "bitcoin", "solana", "$&"}

NetworkInputs == {"mainnet", "testnet"}

RequestBodies == {[keyword |-> <<"body", i>>] : i \in 1..MaxBodies}

ApiInputs ==
    {[operation_id |-> o, protocol |-> p, network |-> n, request_body |-> b] :
        o \in OperationIdInputs, p \in ProtocolInputs, n \in NetworkInputs,
        b \in RequestBodies}
    \cup
    {[operation_id |-> o, protocol |-> p, request_body |-> b] :
        o \in OperationIdInputs, p \in ProtocolInputs, b \in RequestBodies}

AptosInputs ==
    {[query_name |-> o, network |-> n, variables |-> b] :
        o \in OperationIdInputs, n \in NetworkInputs, b \in RequestBodies}
    \cup
    {[query_name |-> o, variables |-> b] :
        o \in OperationIdInputs, b \in RequestBodies}

RECURSIVE CaseVariants(_)
CaseVariants(symbol) ==
    IF symbol = <<>> THEN {<<>>}
    ELSE {<<c>> \o rest : c \in {symbol[1], LowerChar(symbol[1])},
                          rest \in CaseVariants(Tail(symbol))}

RECURSIVE StringsUpTo(_, _)
StringsUpTo(alphabet, n) ==
    IF n = 0 THEN {<<>>}
    ELSE LET shorter == StringsUpTo(alphabet, n - 1) IN
         shorter \cup {<<c>> \o t : c \in alphabet, t \in shorter}

TableSymbols == UNION {DOMAIN MAJOR_TOKENS[chain] : chain \in DOMAIN MAJOR_TOKENS}

SymbolInputs ==
    UNION {CaseVariants(sym) : sym \in TableSymbols}
        \cup StringsUpTo({"P", "e"}, MaxExtraLen)
        \cup OBJECT_PROTOTYPE_KEY_CHARS

ChainInputs == NODIT_PROTOCOLS \cup {"solana", "constructor"}

SymbolConverterInputs ==
    {[symbol |-> sym, chain |-> c, verified_only |-> v] :
        sym \in SymbolInputs, c \in ChainInputs, v \in BOOLEAN}
    \cup
    {[symbol |-> sym, chain |-> c] : sym \in SymbolInputs, c \in ChainInputs}

MaxSymbols == 3

PEPE == <<"P", "e">>

\* Symbols asked a price for: with a feed (in several letter cases) and without.
PriceSymbolInputs == {BTC, <<"b", "t", "c">>, <<"E", "t", "h">>, SOL, PEPE}

RECURSIVE ListsUpTo(_, _)
ListsUpTo(elements, n) ==
    IF n = 0 THEN {<<>>}
    ELSE LET shorter == ListsUpTo(elements, n - 1) IN
         shorter \cup {<<e>> \o t : e \in elements, t \in shorter}

PriceInputs ==
    {[symbols |-> s, currency |-> "EUR"] : s \in ListsUpTo(PriceSymbolInputs, MaxSymbols)}
    \cup
    {[symbols |-> s] : s \in ListsUpTo(PriceSymbolInputs, MaxSymbols)}

TokenSearchInputs ==
    {[query |-> q, chain |-> c, limit |-> 5] :
        q \in {PEPE, USDC}, c \in {"ethereum", "avalanche", "solana"}}
    \cup
    {[query |-> q, chain |-> c] :
        q \in {PEPE, USDC}, c \in {"ethereum", "avalanche", "solana"}}

PUBLISH_TIME == 1700000

\* The ema_price records the oracle may send: exponent negative, positive,
\* a zero mantissa, and a mantissa that spells no number.
EmaPrices ==
    {[price |-> [digits |-> 1234500], expo |-> -2, publish_time |-> PUBLISH_TIME],
     [price |-> [digits |-> 5], expo |-> 3, publish_time |-> PUBLISH_TIME],
     [price |-> [digits |-> 0], expo |-> -8, publish_time |-> PUBLISH_TIME],
     [price |-> [text |-> "n/a"], expo |-> -8, publish_time |-> PUBLISH_TIME]}

\* The updates the oracle may send for a feed; the last one lacks ema_price.
Updates(id) ==
    {[id |-> id, ema_price |-> e] : e \in EmaPrices} \cup {[id |-> id]}

\* The parsed lists the oracle may send for a set of feed ids: updates of
\* some of the feeds, each feed at most once, in any order.
RECURSIVE ParsedLists(_)
ParsedLists(ids) ==
    {<<>>} \cup
    UNION {{<<u>> \o rest : u \in Updates(id), rest \in ParsedLists(ids \ {id})} :
              id \in ids}

\* What client.getLatestPriceUpdates(priceIds) may do.
OracleResponses(priceIds) ==
    {[thrown |-> "Network error"], [thrown |-> ""], [binary |-> TRUE]}
    \cup
    {[binary |-> TRUE, parsed |-> p] :
        p \in ParsedLists({priceIds[i] : i \in 1..Len(priceIds)})}

\* Chains asked of the native-token price tool: the chains of its schema, a
\* chain in other letter cases, a chain without a native symbol, and names
\* every object inherits.
NativeChainInputs ==
    {ETHEREUM, POLYGON, AVALANCHE, ARBITRUM, BASE, OPTIMISM, KAIA,
     <<"P", "o", "l", "y", "g", "o", "n">>,
     <<"K", "A", "I", "A">>,
     <<"s", "o", "l", "a", "n", "a">>,
     <<"c", "o", "n", "s", "t", "r", "u", "c", "t", "o", "r">>,
     <<"C", "o", "n", "s", "t", "r", "u", "c", "t", "o", "r">>}

NativePriceInputs == {[chain |-> c] : c \in NativeChainInputs}

\* Feed id lists asked of pyth_get_prices.
GetPricesInputs ==
    {[priceIds |-> ids] :
        ids \in {<<>>,
                 <<TOKEN_SYMBOL_TO_PYTH_FEED[BTC].feedId>>,
                 <<TOKEN_SYMBOL_TO_PYTH_FEED[BTC].feedId, TOKEN_SYMBOL_TO_PYTH_FEED[ETH].feedId>>,
                 <<"0xunknown">>}}

SearchFeedsInputs == {[query |-> "btc"], [query |-> "eth", assetType |-> "crypto"]}

\* Feeds the oracle may list: with all attributes, with some, with none.
ListedFeeds ==
    {[id |-> TOKEN_SYMBOL_TO_PYTH_FEED[BTC].feedId,
      attributes |-> [display_symbol |-> "BTC/USD", base |-> "BTC",
                      quote_currency |-> "USD", asset_type |-> "Crypto"]],
     [id |-> TOKEN_SYMBOL_TO_PYTH_FEED[ETH].feedId, attributes |-> [base |-> "ETH"]],
     [id |-> TOKEN_SYMBOL_TO_PYTH_FEED[SOL].feedId]}

\* What client.getPriceFeeds may do.
SearchResponses ==
    {[thrown |-> "Network error"], [thrown |-> ""]}
    \cup
    {[priceFeeds |-> feeds] : feeds \in ListsUpTo(ListedFeeds, 2)}

\* How many requests the server may have in progress at once.
MaxRequests == 2

Slots == 1..MaxRequests

FreeSlot == [pc |-> "free"]

\* Requests served at a server that overlaps them: handlers that run to
\* completion without suspending ...
ImmediateCalls ==
    {[tool |-> "cached_nodit_api",
      input |-> [operation_id |-> "searchTokenContractMetadataByKeyword",
                 protocol |-> "ethereum", request_body |-> [keyword |-> <<"body", 1>>]]],
     [tool |-> "cached_bitcoin_api",
      input |-> [operation_id |-> "getBlockByHashOrNumber",
                 protocol |-> "bitcoin", request_body |-> [keyword |-> <<"body", 1>>]]],
     [tool |-> "cached_aptos_api",
      input |-> [query_name |-> "coin_infos", variables |-> [keyword |-> <<"body", 1>>]]],
     [tool |-> "symbol_converter", input |-> [symbol |-> USDC, chain |-> "ethereum"]],
     [tool |-> "symbol_converter", input |-> [symbol |-> PEPE, chain |-> "ethereum"]]}

\* ... and price requests, which suspend on the oracle when a symbol has a feed.
OverlappedPriceInputs ==
    {[symbols |-> <<BTC>>], [symbols |-> <<SOL>>], [symbols |-> <<PEPE>>],
     [symbols |-> <<BTC, PEPE>>, currency |-> "EUR"]}

NoOutcome == [kind |-> "none"]

NoResponse == [none |-> TRUE]

NoCall == [tool |-> "none"]
NoResult == [none |-> TRUE]

Idle == lastCall = NoCall

Init ==
    /\ nodit_specs = CACHED_NODIT_API_SPECS
    /\ bitcoin_specs = CACHED_BITCOIN_API_SPECS
    /\ aptos_queries = CACHED_APTOS_QUERIES
    /\ external_calls = 0
    /\ lastCall = NoCall
    /\ lastResult = NoResult
    /\ saved = NoCall
    /\ pyth_feeds = TOKEN_SYMBOL_TO_PYTH_FEED
    /\ pc = "idle"
    /\ pythFeeds = <<>>
    /\ noditSymbols = <<>>
    /\ oracle_requests = <<>>
    /\ priceUpdates = NoResponse
    /\ pythResult = NoOutcome
    /\ requests = [slot \in Slots |-> FreeSlot]

\* The served entry evicted from the registry.
DispatchNodit_Evicting ==
    /\ Idle
    /\ \E input \in ApiInputs :
        /\ lastCall' = [tool |-> "cached_nodit_api", input |-> input]
        /\ lastResult' = CachedNoditApiHandler(input)
        /\ nodit_specs' = [k \in DOMAIN nodit_specs \ {input.operation_id} |-> nodit_specs[k]]
    /\ UNCHANGED <<bitcoin_specs, aptos_queries, external_calls, saved>>
    /\ UNCHANGED pricingVars

DispatchNodit ==
    /\ Idle
    /\ \E input \in ApiInputs :
        /\ lastCall' = [tool |-> "cached_nodit_api", input |-> input]
        /\ lastResult' = CachedNoditApiHandler(input)
    /\ UNCHANGED <<nodit_specs, bitcoin_specs, aptos_queries, external_calls, saved>>
    /\ UNCHANGED pricingVars

DispatchBitcoin ==
    /\ Idle
    /\ \E input \in ApiInputs :
        /\ lastCall' = [tool |-> "cached_bitcoin_api", input |-> input]
        /\ lastResult' = CachedBitcoinApiHandler(input)
    /\ UNCHANGED <<nodit_specs, bitcoin_specs, aptos_queries, external_calls, saved>>
    /\ UNCHANGED pricingVars

DispatchAptos ==
    /\ Idle
    /\ \E input \in AptosInputs :
        /\ lastCall' = [tool |-> "cached_aptos_api", input |-> input]
        /\ lastResult' = CachedAptosApiHandler(input)
    /\ UNCHANGED <<nodit_specs, bitcoin_specs, aptos_queries, external_calls, saved>>
    /\ UNCHANGED pricingVars

ResolveSymbol ==
    /\ Idle
    /\ \E input \in SymbolConverterInputs :
        /\ lastCall' = [tool |-> "symbol_converter", input |-> input]
        /\ lastResult' = SymbolConverterHandler(input)
    /\ UNCHANGED <<nodit_specs, bitcoin_specs, aptos_queries, external_calls, saved>>
    /\ UNCHANGED pricingVars

ResolveSymbol2 ==
    /\ Idle
    /\ \E input \in SymbolConverterInputs :
        /\ lastCall' = [tool |-> "symbol_converter_2", input |-> input]
        /\ lastResult' = SymbolConverterHandler2(input)
    /\ UNCHANGED <<nodit_specs, bitcoin_specs, aptos_queries, external_calls, saved>>
    /\ UNCHANGED pricingVars

TokenSearchByName ==
    /\ Idle
    /\ \E input \in TokenSearchInputs :
        /\ lastCall' = [tool |-> "token_search_by_name", input |-> input]
        /\ lastResult' = TokenSearchByNameHandler(input)
    /\ UNCHANGED <<nodit_specs, bitcoin_specs, aptos_queries, external_calls, saved>>
    /\ UNCHANGED pricingVars

\* get_token_prices_by_symbols up to the first test of pythFeeds.length: the
\* symbols are partitioned.
ResolvePricesPartition ==
    /\ Idle
    /\ \E input \in PriceInputs :
        /\ lastCall' = [tool |-> "get_token_prices_by_symbols", input |-> input]
        /\ pythFeeds' = getPythFeedsForSymbols(input.symbols).pythFeeds
        /\ noditSymbols' = getPythFeedsForSymbols(input.symbols).noditSymbols
    /\ pc' = "partitioned"
    /\ UNCHANGED <<nodit_specs, bitcoin_specs, aptos_queries, pyth_feeds, requests,
                   external_calls, lastResult, saved,
                   oracle_requests, priceUpdates, pythResult>>

\* The oracle asked again after a failed call.
ResolvePricesCallOracle_Retrying ==
    /\ \/ pc = "partitioned" /\ pythFeeds # <<>>
       \/ pc = "responded" /\ pythResult.kind = "returned" /\ ~pythResult.result.success
             /\ Len(oracle_requests) < 2
    /\ oracle_requests' = Append(oracle_requests, FeedIds(pythFeeds))
    /\ external_calls' = external_calls + 1
    /\ pc' = "awaiting"
    /\ UNCHANGED <<nodit_specs, bitcoin_specs, aptos_queries, pyth_feeds, requests,
                   lastCall, lastResult, saved,
                   pythFeeds, noditSymbols, priceUpdates, pythResult>>

\* Some symbol has a feed: the handler calls getLatestPriceUpdates with the
\* feed ids of pythFeeds, which sends one request to the oracle, and suspends.
ResolvePricesCallOracle ==
    /\ pc = "partitioned"
    /\ pythFeeds # <<>>
    /\ oracle_requests' = Append(oracle_requests, FeedIds(pythFeeds))
    /\ external_calls' = external_calls + 1
    /\ pc' = "awaiting"
    /\ UNCHANGED <<nodit_specs, bitcoin_specs, aptos_queries, pyth_feeds, requests,
                   lastCall, lastResult, saved,
                   pythFeeds, noditSymbols, priceUpdates, pythResult>>

\* No symbol has a feed: the handler skips the oracle.
ResolvePricesSkipOracle ==
    /\ pc = "partitioned"
    /\ pythFeeds = <<>>
    /\ pc' = "responded"
    /\ UNCHANGED <<nodit_specs, bitcoin_specs, aptos_queries, pyth_feeds, requests,
                   external_calls, lastCall, lastResult, saved,
                   pythFeeds, noditSymbols, oracle_requests, priceUpdates, pythResult>>

\* The oracle answers (or the request fails) and getLatestPriceUpdates
\* resolves to its formatted result; it catches every error itself.
OracleRespond ==
    /\ pc = "awaiting"
    /\ \E response \in OracleResponses(oracle_requests[Len(oracle_requests)]) :
        /\ priceUpdates' = response
        /\ pythResult' = [kind |-> "returned", result |-> getLatestPriceUpdates(response)]
    /\ pc' = "responded"
    /\ UNCHANGED <<nodit_specs, bitcoin_specs, aptos_queries, pyth_feeds, requests,
                   external_calls, lastCall, lastResult, saved,
                   pythFeeds, noditSymbols, oracle_requests>>

\* The handler resumes and builds its result.
ResolvePricesFinish ==
    /\ lastCall.tool = "get_token_prices_by_symbols"
    /\ pc = "responded"
    /\ lastResult' = GetTokenPricesBySymbolsHandler(lastCall.input, pythFeeds,
                                                    noditSymbols, pythResult)
    /\ noditSymbols' = RemainingSymbols(pythFeeds, noditSymbols, pythResult)
    /\ pc' = "done"
    /\ UNCHANGED <<nodit_specs, bitcoin_specs, aptos_queries, pyth_feeds, requests,
                   external_calls, lastCall, saved,
                   pythFeeds, oracle_requests, priceUpdates, pythResult>>

\* get_native_token_price_by_chain when getNativeTokenPythFeed throws or
\* returns null: the handler ends before the oracle is asked.
NativePriceWithoutFeed ==
    /\ Idle
    /\ \E input \in NativePriceInputs :
        LET nativeFeed == getNativeTokenPythFeed(input.chain) IN
        /\ nativeFeed.kind = "thrown" \/ nativeFeed.null
        /\ lastCall' = [tool |-> "get_native_token_price_by_chain", input |-> input]
        /\ lastResult' = GetNativeTokenPriceByChainHandler(input, nativeFeed, NoOutcome)
    /\ pc' = "done"
    /\ UNCHANGED <<nodit_specs, bitcoin_specs, aptos_queries, pyth_feeds, requests,
                   external_calls, saved,
                   pythFeeds, noditSymbols, oracle_requests, priceUpdates, pythResult>>

\* get_native_token_price_by_chain when the chain has a native feed: the
\* handler calls getLatestPriceUpdates([nativeFeed.feedId]) and suspends,
\* holding nativeFeed (kept in pythFeeds).
NativePriceCallOracle ==
    /\ Idle
    /\ \E input \in NativePriceInputs :
        LET nativeFeed == getNativeTokenPythFeed(input.chain) IN
        /\ nativeFeed.kind = "returned" /\ ~nativeFeed.null
        /\ lastCall' = [tool |-> "get_native_token_price_by_chain", input |-> input]
        /\ pythFeeds' = <<nativeFeed.value>>
        /\ oracle_requests' = Append(oracle_requests, <<nativeFeed.value.feedId>>)
    /\ external_calls' = external_calls + 1
    /\ pc' = "awaiting"
    /\ UNCHANGED <<nodit_specs, bitcoin_specs, aptos_queries, pyth_feeds, requests,
                   lastResult, saved, noditSymbols, priceUpdates, pythResult>>

\* The native-token handler resumes and builds its result.
NativePriceFinish ==
    /\ lastCall.tool = "get_native_token_price_by_chain"
    /\ pc = "responded"
    /\ lastResult' = GetNativeTokenPriceByChainHandler(
                        lastCall.input,
                        [kind |-> "returned", null |-> FALSE, value |-> pythFeeds[1]],
                        pythResult)
    /\ pc' = "done"
    /\ UNCHANGED <<nodit_specs, bitcoin_specs, aptos_queries, pyth_feeds, requests,
                   external_calls, lastCall, saved,
                   pythFeeds, noditSymbols, oracle_requests, priceUpdates, pythResult>>

\* pyth_get_prices calls getLatestPriceUpdates(input.priceIds) and suspends.
GetPricesCallOracle ==
    /\ Idle
    /\ \E input \in GetPricesInputs :
        /\ lastCall' = [tool |-> "pyth_get_prices", input |-> input]
        /\ oracle_requests' = Append(oracle_requests, input.priceIds)
    /\ external_calls' = external_calls + 1
    /\ pc' = "awaiting"
    /\ UNCHANGED <<nodit_specs, bitcoin_specs, aptos_queries, pyth_feeds, requests,
                   lastResult, saved, pythFeeds, noditSymbols, priceUpdates, pythResult>>

\* pyth_get_prices resumes and builds its result.
GetPricesFinish ==
    /\ lastCall.tool = "pyth_get_prices"
    /\ pc = "responded"
    /\ lastResult' = GetPriceUpdatesHandler(lastCall.input, pythResult)
    /\ pc' = "done"
    /\ UNCHANGED <<nodit_specs, bitcoin_specs, aptos_queries, pyth_feeds, requests,
                   external_calls, lastCall, saved,
                   pythFeeds, noditSymbols, oracle_requests, priceUpdates, pythResult>>

\* pyth_search_price_feeds calls searchPriceFeeds(query, assetType), which
\* sends one request to the oracle, and suspends.
SearchFeedsCall ==
    /\ Idle
    /\ \E input \in SearchFeedsInputs :
        /\ lastCall' = [tool |-> "pyth_search_price_feeds", input |-> input]
        /\ oracle_requests' = Append(oracle_requests, input)
    /\ external_calls' = external_calls + 1
    /\ pc' = "searching"
    /\ UNCHANGED <<nodit_specs, bitcoin_specs, aptos_queries, pyth_feeds, requests,
                   lastResult, saved, pythFeeds, noditSymbols, priceUpdates, pythResult>>

\* The oracle answers the search (or the request fails); searchPriceFeeds
\* resolves, catching every error itself, and the handler builds its result.
SearchFeedsRespond ==
    /\ pc = "searching"
    /\ \E response \in SearchResponses :
        LET outcome == [kind |-> "returned", result |-> searchPriceFeeds(response)] IN
        /\ priceUpdates' = response
        /\ pythResult' = outcome
        /\ lastResult' = SearchPriceFeedsHandler(lastCall.input, outcome)
    /\ pc' = "done"
    /\ UNCHANGED <<nodit_specs, bitcoin_specs, aptos_queries, pyth_feeds, requests,
                   external_calls, lastCall, saved,
                   pythFeeds, noditSymbols, oracle_requests>>

\* The handler of a tool that does not suspend.
HandlerOf(tool, input) ==
    CASE tool = "cached_nodit_api" -> CachedNoditApiHandler(input)
      [] tool = "cached_bitcoin_api" -> CachedBitcoinApiHandler(input)
      [] tool = "cached_aptos_api" -> CachedAptosApiHandler(input)
      [] tool = "symbol_converter" -> SymbolConverterHandler(input)

\* A dispatch or symbol request arrives while other requests are in
\* progress; its handler has no await and runs to completion.
ServeImmediately ==
    /\ \E slot \in Slots, call \in ImmediateCalls :
        /\ requests[slot] = FreeSlot
        /\ requests' = [requests EXCEPT ![slot] =
                          [pc |-> "done", tool |-> call.tool, input |-> call.input,
                           result |-> HandlerOf(call.tool, call.input)]]
    /\ UNCHANGED <<nodit_specs, bitcoin_specs, aptos_queries, pyth_feeds,
                   external_calls, lastCall, lastResult, saved, pc, pythFeeds,
                   noditSymbols, oracle_requests, priceUpdates, pythResult>>

\* A price request arrives while other requests are in progress: its handler
\* partitions the symbols and either suspends on the oracle, holding its own
\* pythFeeds and noditSymbols, or runs to completion.
ServePricesStart ==
    /\ \E slot \in Slots, input \in OverlappedPriceInputs :
        LET partition == getPythFeedsForSymbols(input.symbols) IN
        /\ requests[slot] = FreeSlot
        /\ requests' = [requests EXCEPT ![slot] =
              IF partition.pythFeeds # <<>>
              THEN [pc |-> "awaiting", tool |-> "get_token_prices_by_symbols",
                    input |-> input,
                    pythFeeds |-> partition.pythFeeds,
                    noditSymbols |-> partition.noditSymbols,
                    priceIds |-> FeedIds(partition.pythFeeds)]
              ELSE [pc |-> "done", tool |-> "get_token_prices_by_symbols",
                    input |-> input,
                    result |-> GetTokenPricesBySymbolsHandler(
                                  input, partition.pythFeeds,
                                  partition.noditSymbols, NoOutcome)]]
    /\ UNCHANGED <<nodit_specs, bitcoin_specs, aptos_queries, pyth_feeds,
                   external_calls, lastCall, lastResult, saved, pc, pythFeeds,
                   noditSymbols, oracle_requests, priceUpdates, pythResult>>

\* A suspended price request resumes with the feeds of some suspended
\* request, as if pythFeeds and noditSymbols were shared by the requests.
ServePricesResume_SharedFeeds ==
    /\ \E slot \in Slots, other \in Slots :
        /\ requests[slot].pc = "awaiting"
        /\ requests[other].pc = "awaiting"
        /\ \E response \in OracleResponses(requests[slot].priceIds) :
            requests' = [requests EXCEPT ![slot] =
                [pc |-> "done", tool |-> requests[slot].tool,
                 input |-> requests[slot].input,
                 response |-> response,
                 result |-> GetTokenPricesBySymbolsHandler(
                               requests[slot].input, requests[other].pythFeeds,
                               requests[other].noditSymbols,
                               [kind |-> "returned",
                                result |-> getLatestPriceUpdates(response)])]]
    /\ UNCHANGED <<nodit_specs, bitcoin_specs, aptos_queries, pyth_feeds,
                   external_calls, lastCall, lastResult, saved, pc, pythFeeds,
                   noditSymbols, oracle_requests, priceUpdates, pythResult>>

\* The oracle answers a suspended price request, in any order among the
\* suspended ones; its handler resumes with the pythFeeds and noditSymbols it
\* held and runs to completion.
ServePricesResume ==
    /\ \E slot \in Slots :
        /\ requests[slot].pc = "awaiting"
        /\ \E response \in OracleResponses(requests[slot].priceIds) :
            requests' = [requests EXCEPT ![slot] =
                [pc |-> "done", tool |-> requests[slot].tool,
                 input |-> requests[slot].input,
                 response |-> response,
                 result |-> GetTokenPricesBySymbolsHandler(
                               requests[slot].input, requests[slot].pythFeeds,
                               requests[slot].noditSymbols,
                               [kind |-> "returned",
                                result |-> getLatestPriceUpdates(response)])]]
    /\ UNCHANGED <<nodit_specs, bitcoin_specs, aptos_queries, pyth_feeds,
                   external_calls, lastCall, lastResult, saved, pc, pythFeeds,
                   noditSymbols, oracle_requests, priceUpdates, pythResult>>

\* A finished request is handed to its client.
ServeReturn ==
    /\ \E slot \in Slots :
        /\ requests[slot].pc = "done"
        /\ requests' = [requests EXCEPT ![slot] = FreeSlot]
    /\ UNCHANGED <<nodit_specs, bitcoin_specs, aptos_queries, pyth_feeds,
                   external_calls, lastCall, lastResult, saved, pc, pythFeeds,
                   noditSymbols, oracle_requests, priceUpdates, pythResult>>

\* The server hands the result to its client and is ready for the next request.
Return ==
    /\ ~Idle
    /\ pc \in {"idle", "done"}
    /\ lastCall' = NoCall
    /\ lastResult' = NoResult
    /\ external_calls' = 0
    /\ pc' = "idle"
    /\ pythFeeds' = <<>>
    /\ noditSymbols' = <<>>
    /\ oracle_requests' = <<>>
    /\ priceUpdates' = NoResponse
    /\ pythResult' = NoOutcome
    /\ UNCHANGED <<nodit_specs, bitcoin_specs, aptos_queries, pyth_feeds, requests, saved>>

DISPATCH_TOOLS == {"cached_nodit_api", "cached_bitcoin_api", "cached_aptos_api"}

\* The server hands a dispatch result to a client that notes the request and
\* the result, to repeat the request later.
Remember ==
    /\ lastCall.tool \in DISPATCH_TOOLS
    /\ saved = NoCall
    /\ saved' = [tool |-> lastCall.tool, input |-> lastCall.input, result |-> lastResult]
    /\ lastCall' = NoCall
    /\ lastResult' = NoResult
    /\ UNCHANGED <<nodit_specs, bitcoin_specs, aptos_queries, external_calls>>
    /\ UNCHANGED pricingVars

Next ==
    \/ DispatchNodit
    \/ DispatchBitcoin
    \/ DispatchAptos
    \/ ResolveSymbol
    \/ ResolveSymbol2
    \/ TokenSearchByName
    \/ ResolvePricesPartition
    \/ ResolvePricesCallOracle
    \/ ResolvePricesSkipOracle
    \/ OracleRespond
    \/ ResolvePricesFinish
    \/ NativePriceWithoutFeed
    \/ NativePriceCallOracle
    \/ NativePriceFinish
    \/ GetPricesCallOracle
    \/ GetPricesFinish
    \/ SearchFeedsCall
    \/ SearchFeedsRespond
    \/ Return

Spec == Init /\ [][Next]_vars

NextRepeat ==
    \/ DispatchNodit
    \/ DispatchBitcoin
    \/ DispatchAptos
    \/ Return
    \/ Remember

SpecRepeat == Init /\ [][NextRepeat]_vars

\* The server with overlapping requests.
NextOverlapped ==
    \/ ServeImmediately
    \/ ServePricesStart
    \/ ServePricesResume
    \/ ServeReturn

SpecOverlapped == Init /\ [][NextOverlapped]_vars

(***************************************************************************)
(* Properties of the dispatcher.                                           *)
(***************************************************************************)
IsDispatch == lastCall.tool \in DISPATCH_TOOLS
IsPathDispatch == lastCall.tool \in {"cached_nodit_api", "cached_bitcoin_api"}

\* The registry, as built at startup, of the family a tool serves.
StartupRegistry(tool) ==
    CASE tool = "cached_nodit_api" -> CACHED_NODIT_API_SPECS
      [] tool = "cached_bitcoin_api" -> CACHED_BITCOIN_API_SPECS
      [] tool = "cached_aptos_api" -> CACHED_APTOS_QUERIES

\* The chain identifiers a family accepts.
SupportedSet(tool) ==
    CASE tool = "cached_nodit_api" -> NODIT_SCHEMA_PROTOCOLS
      [] tool = "cached_bitcoin_api" -> BITCOIN_SCHEMA_PROTOCOLS
      [] tool = "cached_aptos_api" -> APTOS_SCHEMA_NETWORKS

RequestedId ==
    IF lastCall.tool = "cached_aptos_api" THEN lastCall.input.query_name
    ELSE lastCall.input.operation_id

RequestedNetwork ==
    IF "network" \in DOMAIN lastCall.input THEN lastCall.input.network ELSE "mainnet"

RequestedBody ==
    IF lastCall.tool = "cached_aptos_api" THEN lastCall.input.variables
    ELSE lastCall.input.request_body

Succeeded == "status" \in DOMAIN lastResult /\ lastResult.status = "success"

\* The list of valid ids an error payload carries (the Aptos family names it
\* available_queries).
AvailableIds(result) ==
    IF "available_operations" \in DOMAIN result THEN result.available_operations
    ELSE IF "available_queries" \in DOMAIN result THEN result.available_queries
    ELSE {}

\* C1: a dispatch with an operation id that is not in the family's registry
\* returns status "error" with a non-empty list of valid ids that contains
\* every id registered for the family.
C1_UnknownOperationListsEveryId ==
    (IsDispatch /\ RequestedId \notin DOMAIN StartupRegistry(lastCall.tool)) =>
        /\ "status" \in DOMAIN lastResult
        /\ lastResult.status = "error"
        /\ AvailableIds(lastResult) # {}
        /\ DOMAIN StartupRegistry(lastCall.tool) \subseteq AvailableIds(lastResult)

\* The path template with both placeholders replaced by the given values.
Substituted(template, protocol, network) ==
    [i \in 1..Len(template) |->
        IF template[i] = "{protocol}" THEN protocol
        ELSE IF template[i] = "{network}" THEN network
        ELSE template[i]]

HasPlaceholder(path) ==
    \E i \in 1..Len(path) : path[i] \in {"{protocol}", "{network}"}

\* C2: a successful dispatch of a registered operation returns the path
\* template with {protocol} and {network} replaced by the given protocol and
\* network ("mainnet" when omitted), no placeholder remains, and the method is
\* the registry's.
C2_ResolvedPathIsSubstitutedTemplate ==
    (IsPathDispatch /\ Succeeded
        /\ RequestedId \in DOMAIN StartupRegistry(lastCall.tool)) =>
        LET entry == StartupRegistry(lastCall.tool)[RequestedId] IN
        /\ lastResult.api_spec.path =
              Substituted(entry.path, lastCall.input.protocol, RequestedNetwork)
        /\ ~HasPlaceholder(lastResult.api_spec.path)
        /\ lastResult.api_spec.method = entry.method

\* C3: every dispatch, whatever the operation id, returns a result with a
\* status field and raises no exception.
C3_DispatchNeverRaises ==
    IsDispatch => ("status" \in DOMAIN lastResult /\ "exception" \notin DOMAIN lastResult)

\* C4: a dispatch of a registered operation with a protocol outside the
\* family's supported set yields an error result, not a success descriptor.
C4_UnsupportedProtocolRejected ==
    (IsPathDispatch
        /\ RequestedId \in DOMAIN StartupRegistry(lastCall.tool)
        /\ lastCall.input.protocol \notin SupportedSet(lastCall.tool)) =>
        /\ "status" \in DOMAIN lastResult
        /\ lastResult.status = "error"

\* C5: in every successful dispatch result the protocol-supported flag (for
\* Aptos, the network-supported flag) is true exactly when the given value is
\* in the family's supported set, and the operation-cached flag is true.
C5_ValidationFlags ==
    (IsDispatch /\ Succeeded) =>
        IF lastCall.tool = "cached_aptos_api"
        THEN /\ lastResult.validation.network_supported
                    <=> (RequestedNetwork \in SupportedSet(lastCall.tool))
             /\ lastResult.validation.query_cached = TRUE
        ELSE /\ lastResult.validation.protocol_supported
                    <=> (lastCall.input.protocol \in SupportedSet(lastCall.tool))
             /\ lastResult.validation.operation_cached = TRUE

C5_Witness ==
    /\ lastCall.tool = "cached_bitcoin_api"
    /\ Succeeded
    /\ lastCall.input.protocol = "ethereum"
    /\ ~lastResult.validation.protocol_supported
    /\ lastResult.validation.operation_cached

Registries == <<nodit_specs, bitcoin_specs, aptos_queries>>

\* The request body (for Aptos, the variables) of the emitted call descriptor.
EmittedBody ==
    IF lastCall.tool = "cached_aptos_api"
    THEN lastResult.call_instruction.parameters.requestBody.variables
    ELSE lastResult.call_instruction.parameters.requestBody

C6_BodyEchoed == (IsDispatch /\ Succeeded) => EmittedBody = RequestedBody

C6_DispatchFrame ==
    (Idle /\ lastCall'.tool \in DISPATCH_TOOLS) =>
        (Registries' = Registries /\ external_calls' = external_calls)

\* C6: a dispatch makes no network call and leaves every registry as it was,
\* and the call descriptor it emits carries exactly the request body (for
\* Aptos, the variables) it was given.
C6_DispatchIsPure == [](C6_BodyEchoed) /\ [][C6_DispatchFrame]_vars

C6_Witness ==
    /\ lastCall.tool = "cached_aptos_api"
    /\ Succeeded
    /\ RequestedBody = [keyword |-> <<"body", 2>>]
    /\ EmittedBody = [keyword |-> <<"body", 2>>]
    /\ Registries = <<CACHED_NODIT_API_SPECS, CACHED_BITCOIN_API_SPECS, CACHED_APTOS_QUERIES>>
    /\ external_calls = 0

SameRecord(a, b) == DOMAIN a = DOMAIN b /\ \A k \in DOMAIN a : a[k] = b[k]

\* The latest request repeats the request the client noted earlier.
Repeated ==
    /\ saved.tool # "none"
    /\ lastCall.tool = saved.tool
    /\ SameRecord(lastCall.input, saved.input)

ForeignIds(tool) == UNION {DOMAIN StartupRegistry(t) : t \in DISPATCH_TOOLS \ {tool}}

\* The id of the specification a successful dispatch returned.
ReturnedSpecId ==
    IF lastCall.tool = "cached_aptos_api" THEN lastResult.graphql_spec.queryName
    ELSE lastResult.api_spec.operationId

\* C8: the registries are independent: an id registered in another family
\* only is rejected as unknown, and a dispatch never returns a specification
\* of another family's registry.
C8_RegistriesIndependent ==
    IsDispatch =>
        /\ (RequestedId \in ForeignIds(lastCall.tool)
                /\ RequestedId \notin DOMAIN StartupRegistry(lastCall.tool)) =>
            ("status" \in DOMAIN lastResult /\ lastResult.status = "error")
        /\ Succeeded =>
            (ReturnedSpecId \in DOMAIN StartupRegistry(lastCall.tool)
                \/ ReturnedSpecId \notin ForeignIds(lastCall.tool))

C8_Witness ==
    /\ lastCall.tool = "cached_bitcoin_api"
    /\ RequestedId = "getGasPrice"
    /\ RequestedId \in DOMAIN CACHED_NODIT_API_SPECS
    /\ lastResult.status = "error"

(***************************************************************************)
(* Properties of the symbol resolver.                                      *)
(***************************************************************************)
RESOLVE_TOOLS == {"symbol_converter", "symbol_converter_2"}

IsResolve == lastCall.tool \in RESOLVE_TOOLS

VerifiedOnly ==
    IF "verified_only" \in DOMAIN lastCall.input THEN lastCall.input.verified_only
    ELSE TRUE

\* The keys of the chain's static table that the symbol spells in some letter case.
MatchingKeys(chain, symbol) ==
    IF chain \in DOMAIN MAJOR_TOKENS
    THEN {key \in DOMAIN MAJOR_TOKENS[chain] : symbol \in CaseVariants(key)}
    ELSE {}

C9_StaticHit ==
    (IsResolve /\ VerifiedOnly
        /\ MatchingKeys(lastCall.input.chain, lastCall.input.symbol) # {}) =>
        \A key \in MatchingKeys(lastCall.input.chain, lastCall.input.symbol) :
            /\ lastResult.status = "success"
            /\ lastResult.confidence = "high"
            /\ lastResult.symbol = key
            /\ lastResult.contract_address = MAJOR_TOKENS[lastCall.input.chain][key].address
            /\ "next_step" \notin DOMAIN lastResult

C9_NoExternalCall ==
    (Idle /\ lastCall'.tool \in RESOLVE_TOOLS) => external_calls' = external_calls

\* C9: for a symbol of the chain's static table, in any letter case, and
\* verified_only true, the resolver returns status "success", confidence
\* "high" and the table's address for the upper-case symbol, with no lookup
\* plan and no external call.
C9_StaticSymbolResolved == [](C9_StaticHit) /\ [][C9_NoExternalCall]_vars

C9_Witness ==
    /\ lastCall.tool = "symbol_converter"
    /\ lastCall.input.symbol = <<"u", "S", "d", "c">>
    /\ lastCall.input.chain = "base"
    /\ lastResult.status = "success"
    /\ lastResult.contract_address = "0x833589fCD6eDb6E08f4c7C32D4f71b54bdA02913"

\* The embedded plan, as the input of a dispatch.
PlanAsDispatchInput(result) ==
    LET p == result.next_step.parameters IN
    IF "operation_id" \in DOMAIN p THEN p
    ELSE [operation_id |-> p.operationId, protocol |-> p.protocol,
          network |-> p.network, request_body |-> p.requestBody]

IsUpperCaseOf(upper, symbol) ==
    /\ Len(upper) = Len(symbol)
    /\ \A i \in 1..Len(symbol) :
        /\ LowerChar(upper[i]) = LowerChar(symbol[i])
        /\ \A j \in 1..Len(LOWER_CASE) : upper[i] # LOWER_CASE[j]

MATCH_CLASSES ==
    <<[key |-> "exact_symbol_match", label |-> "Exact symbol match"],
      [key |-> "partial_symbol_match", label |-> "Partial symbol match"],
      [key |-> "exact_name_match", label |-> "Exact name match"],
      [key |-> "partial_name_match", label |-> "Partial name match"]>>

\* The latest result hands its caller a rubric for search candidates.
CarriesRubric ==
    \/ IsResolve /\ lastResult.status = "instruction"
    \/ lastCall.tool = "token_search_by_name"

\* The points the rubric of a result gives to a criterion; none when the
\* rubric does not name it.
RubricPoints(result, class) ==
    IF "process_result" \in DOMAIN result
    THEN IF "scoring" \in DOMAIN result.process_result
            /\ class.key \in DOMAIN result.process_result.scoring
         THEN result.process_result.scoring[class.key]
         ELSE 0
    ELSE LET lines == result.search_processing.relevance_scoring IN
         IF \E i \in 1..Len(lines) : lines[i].criterion = class.label
         THEN lines[CHOOSE i \in 1..Len(lines) : lines[i].criterion = class.label].points
         ELSE 0

\* The criteria of the rubric that add points to a candidate of any class.
RubricBonuses(result) ==
    IF "process_result" \in DOMAIN result
    THEN IF "scoring" \in DOMAIN result.process_result
         THEN {[key |-> k, label |-> k] :
                  k \in DOMAIN result.process_result.scoring
                        \ {MATCH_CLASSES[i].key : i \in 1..Len(MATCH_CLASSES)}}
         ELSE {}
    ELSE LET lines == result.search_processing.relevance_scoring IN
         {[key |-> lines[i].criterion, label |-> lines[i].criterion] :
             i \in {j \in 1..Len(lines) : lines[j].bonus}}

RECURSIVE BonusPoints(_, _)
BonusPoints(result, bonuses) ==
    IF bonuses = {} THEN 0
    ELSE LET b == CHOOSE x \in bonuses : TRUE IN
         RubricPoints(result, b) + BonusPoints(result, bonuses \ {b})

\* A search candidate: its match class and the bonus criteria it meets.
Candidates(result) ==
    [class : 1..Len(MATCH_CLASSES), bonuses : SUBSET RubricBonuses(result)]

RubricScore(result, candidate) ==
    RubricPoints(result, MATCH_CLASSES[candidate.class])
        + BonusPoints(result, candidate.bonuses)

\* The rubric tells its caller to prefer a non-zero total supply.
PrefersNonZeroSupply(result) ==
    /\ "process_result" \in DOMAIN result
    /\ \E i \in 1..Len(result.process_result.filter_criteria) :
          result.process_result.filter_criteria[i] = "Non-zero total supply preferred"

\* C11: the rubric a lookup result hands its caller scores every candidate of
\* a better match class (exact symbol, partial symbol, exact name, partial
\* name, in this order) above every candidate of a worse one, and names
\* non-zero total supply as the tie-break.
C11_RubricRanksByMatchClass ==
    CarriesRubric =>
        /\ \A a, b \in Candidates(lastResult) :
              a.class < b.class =>
                  RubricScore(lastResult, a) > RubricScore(lastResult, b)
        /\ PrefersNonZeroSupply(lastResult)

\* C12: every lookup plan the resolver returns carries the no-candidate
\* outcome: status "not_found", the upper-case symbol, the chain asked for and
\* a non-empty list of suggestions; and the resolver returns a result with a
\* status, never an exception, for every symbol and chain.
C12_LookupCarriesNotFound ==
    IsResolve =>
        /\ "exception" \notin DOMAIN lastResult
        /\ "status" \in DOMAIN lastResult
        /\ lastResult.status \in {"success", "instruction"}
        /\ lastResult.status = "instruction" =>
              LET notFound == lastResult.fallback.if_no_results IN
              /\ notFound.status = "not_found"
              /\ IsUpperCaseOf(notFound.symbol, lastCall.input.symbol)
              /\ notFound.chain = lastCall.input.chain
              /\ Len(notFound.suggestions) > 0

C12_Witness ==
    /\ lastCall.tool = "symbol_converter_2"
    /\ lastCall.input.symbol = <<"u", "s", "d", "c">>
    /\ lastCall.input.chain = "solana"
    /\ lastResult.status = "instruction"
    /\ lastResult.fallback.if_no_results.symbol = USDC
    /\ lastResult.fallback.if_no_results.chain = "solana"
    /\ Len(lastResult.fallback.if_no_results.suggestions) = 3

(***************************************************************************)
(* Properties of the price resolution engine.                              *)
(***************************************************************************)
IsResolvePrices == lastCall.tool = "get_token_prices_by_symbols"

\* The keys of the oracle feed mapping that a symbol spells in some letter case.
FeedKeys(symbol) ==
    {key \in DOMAIN TOKEN_SYMBOL_TO_PYTH_FEED :
        /\ Len(symbol) = Len(key)
        /\ \A i \in 1..Len(key) : symbol[i] \in {key[i], LowerChar(key[i])}}

HasFeed(symbol) == FeedKeys(symbol) # {}

HasNoFeed(symbol) == FeedKeys(symbol) = {}

SameIgnoringCase(a, b) ==
    /\ Len(a) = Len(b)
    /\ \A i \in 1..Len(a) : LowerChar(a[i]) = LowerChar(b[i])

\* C13: once the handler has partitioned the symbols, pythFeeds holds the
\* symbols that spell a key of the feed mapping in any letter case, in input
\* order, each in upper case with the feed id of that key, noditSymbols holds
\* all the others in input order, and the two lengths add up to the number
\* of symbols; so symbols that differ in letter case only fall in the same
\* class with the same feed id.
C13_PartitionIsCaseInsensitive ==
    (IsResolvePrices /\ pc \in {"partitioned", "awaiting", "responded"}) =>
        LET symbols == lastCall.input.symbols
            covered == SelectSeq(symbols, HasFeed)
        IN
        /\ Len(pythFeeds) + Len(noditSymbols) = Len(symbols)
        /\ noditSymbols = SelectSeq(symbols, HasNoFeed)
        /\ Len(pythFeeds) = Len(covered)
        /\ \A k \in 1..Len(covered) :
              /\ pythFeeds[k].symbol \in FeedKeys(covered[k])
              /\ pythFeeds[k].feedId =
                    TOKEN_SYMBOL_TO_PYTH_FEED[pythFeeds[k].symbol].feedId
        /\ \A i, j \in 1..Len(covered) :
              SameIgnoringCase(covered[i], covered[j]) =>
                  pythFeeds[i].feedId = pythFeeds[j].feedId

C13_Witness ==
    /\ IsResolvePrices
    /\ pc = "partitioned"
    /\ lastCall.input.symbols = <<PEPE, <<"b", "t", "c">>, BTC>>
    /\ noditSymbols = <<PEPE>>
    /\ Len(pythFeeds) = 2
    /\ pythFeeds[1].symbol = BTC
    /\ pythFeeds[1].feedId = pythFeeds[2].feedId

\* The handler has returned its result.
PricesReturned == IsResolvePrices /\ pc = "done"

\* The quotes of a result: the entries of price_results that carry a price.
Quotes(result) ==
    SelectSeq(result.price_results, LAMBDA e : e.source = "pyth")

\* The unresolved list of a result: the symbols of the entry of price_results
\* that asks for manual resolution.
Unresolved(result) ==
    LET manual == SelectSeq(result.price_results,
                            LAMBDA e : e.source = "manual_resolution_needed")
    IN IF manual = <<>> THEN <<>> ELSE manual[1].symbols

\* The pending plan of a result: the entries of execution_plan that hold the
\* recommended steps.
PendingPlan(result) ==
    SelectSeq(result.execution_plan, LAMBDA e : "recommendations" \in DOMAIN e)

\* How many entries of a list of symbols spell the upper-case symbol.
Occurrences(list, upperSymbol) ==
    Cardinality({i \in 1..Len(list) : ToUpperCase(list[i]) = upperSymbol})

QuoteSymbols(result) ==
    [i \in 1..Len(Quotes(result)) |-> Quotes(result)[i].symbol]

\* The oracle call failed: the client reported success: false.
OracleFailed == pythResult.kind = "returned" /\ ~pythResult.result.success

\* C14: in every result the handler returns, the oracle-covered count and the
\* unresolved count of the overview add up to the total, and every requested
\* symbol appears exactly once, as a quote or in the unresolved list.
C14_EverySymbolAccountedFor ==
    PricesReturned =>
        LET symbols == lastCall.input.symbols IN
        /\ lastResult.overview.pyth_supported
              + lastResult.overview.manual_resolution_needed
              = lastResult.overview.total_symbols
        /\ lastResult.overview.total_symbols = Len(symbols)
        /\ \A i \in 1..Len(symbols) :
              Occurrences(QuoteSymbols(lastResult), ToUpperCase(symbols[i]))
                  + Occurrences(Unresolved(lastResult), ToUpperCase(symbols[i]))
                  = Occurrences(symbols, ToUpperCase(symbols[i]))

\* C15: when the oracle call failed, the handler still returns a result, the
\* unresolved list of the pending plan holds every symbol that had a feed,
\* and the result carries the oracle's error.
C15_OracleFailureReroutes ==
    (PricesReturned /\ OracleFailed) =>
        /\ "status" \in DOMAIN lastResult
        /\ Len(PendingPlan(lastResult)) = 1
        /\ \A k \in 1..Len(pythFeeds) :
              Occurrences(PendingPlan(lastResult)[1].symbols, pythFeeds[k].symbol) > 0
        /\ \E i \in 1..Len(lastResult.execution_plan) :
              /\ "error" \in DOMAIN lastResult.execution_plan[i]
              /\ lastResult.execution_plan[i].error = pythResult.result.error

\* The oracle call succeeded.
OracleSucceeded == pythResult.kind = "returned" /\ pythResult.result.success

\* C16: after a successful oracle call, the i-th quote of the result, whose
\* price is the price of the i-th formatted update, names the feed id of that
\* update.
C16_QuoteKeepsItsFeed ==
    (PricesReturned /\ OracleSucceeded) =>
        \A i \in 1..Len(Quotes(lastResult)) :
            /\ Quotes(lastResult)[i].price = pythResult.result.prices[i].price
            /\ Quotes(lastResult)[i].feed_id = pythResult.result.prices[i].id

\* C17: a successful getLatestPriceUpdates returns one entry for every feed
\* id of the batch it was asked for, in request order; a feed without an
\* update has an entry with price null.
C17_OneEntryPerFeedId ==
    (IsResolvePrices /\ pc \in {"responded", "done"} /\ OracleSucceeded) =>
        LET priceIds == oracle_requests[Len(oracle_requests)]
            prices == pythResult.result.prices
        IN
        /\ Len(prices) = Len(priceIds)
        /\ \A i \in 1..Len(prices) : prices[i].id = priceIds[i]

\* The handler sends a batch to the oracle in this step.
CallsOracle == IsResolvePrices /\ Len(oracle_requests') > Len(oracle_requests)

\* A call of the oracle comes after the partition and holds the feed ids of
\* all symbols that have a feed, in one batch.
C18_CallAfterPartition ==
    CallsOracle =>
        /\ pc = "partitioned"
        /\ pythFeeds = getPythFeedsForSymbols(lastCall.input.symbols).pythFeeds
        /\ Len(pythFeeds) = Len(SelectSeq(lastCall.input.symbols, HasFeed))
        /\ oracle_requests = <<>>
        /\ oracle_requests' = <<FeedIds(pythFeeds)>>

\* No call of the oracle follows a failed one in the same invocation.
C18_NoRetry ==
    (IsResolvePrices /\ OracleFailed) => ~CallsOracle

\* The number of calls by the time the handler returns.
C18_CalledOnceOrNever ==
    /\ Len(oracle_requests) <= 1
    /\ external_calls = Len(oracle_requests)
    /\ (IsResolvePrices /\ pc \in {"awaiting", "responded", "done"}) =>
          Len(oracle_requests) =
              IF SelectSeq(lastCall.input.symbols, HasFeed) # <<>> THEN 1 ELSE 0

\* C18: in an invocation of the price handler the oracle is called after the
\* symbols are partitioned, exactly once and with the feed ids of all covered
\* symbols in one batch when some symbol has a feed, never when none has, and
\* never again after a failed call.
C18_SingleBatchAfterPartition ==
    /\ [](C18_CalledOnceOrNever)
    /\ [][C18_CallAfterPartition /\ C18_NoRetry]_vars

C18_Witness ==
    /\ PricesReturned
    /\ OracleFailed
    /\ lastCall.input.symbols = <<BTC, PEPE, SOL>>
    /\ oracle_requests = <<<<TOKEN_SYMBOL_TO_PYTH_FEED[BTC].feedId,
                             TOKEN_SYMBOL_TO_PYTH_FEED[SOL].feedId>>>>
    /\ external_calls = 1

\* The value mantissa x 10^expo of an update the oracle sent.
UpdateValue(update) ==
    LET m == update.ema_price.price.digits
        e == update.ema_price.expo
    IN IF e >= 0 THEN Fraction(m * Pow10(e), 1) ELSE Fraction(m, Pow10(-e))

\* The updates of the oracle's answer that carry a number.
NumericUpdates ==
    IF "parsed" \in DOMAIN priceUpdates
    THEN {priceUpdates.parsed[j] : j \in
             {k \in 1..Len(priceUpdates.parsed) :
                 /\ "ema_price" \in DOMAIN priceUpdates.parsed[k]
                 /\ "digits" \in DOMAIN priceUpdates.parsed[k].ema_price.price}}
    ELSE {}

\* C19: every price in a returned result that is not null is the value
\* mantissa x 10^expo of an update the oracle sent in this invocation; the
\* entry for the unresolved symbols carries no price, and the symbols are
\* listed in the pending plan.
C19_NoGuessedPrice ==
    PricesReturned =>
        \A i \in 1..Len(lastResult.price_results) :
            LET entry == lastResult.price_results[i] IN
            /\ entry.source = "pyth" =>
                  \/ IsNull(entry.price)
                  \/ \E update \in NumericUpdates : entry.price = UpdateValue(update)
            /\ entry.source # "pyth" =>
                  /\ "price" \notin DOMAIN entry
                  /\ Len(PendingPlan(lastResult)) = 1
                  /\ PendingPlan(lastResult)[1].symbols = entry.symbols

C19_Witness ==
    /\ PricesReturned
    /\ lastCall.input.symbols = <<BTC, PEPE, SOL>>
    /\ Len(lastResult.price_results) = 3
    /\ lastResult.price_results[1].price = [num |-> 12345, den |-> 1]
    /\ IsNull(lastResult.price_results[2].price)
    /\ lastResult.price_results[3].symbols = <<PEPE>>

\* A plan step names a registered EVM operation and a supported protocol, and
\* the dispatcher answers it with success.
DispatchReady(step) ==
    /\ "operation_id" \in DOMAIN step.parameters
    /\ step.parameters.operation_id \in DOMAIN CACHED_NODIT_API_SPECS
    /\ "protocol" \in DOMAIN step.parameters
    /\ step.parameters.protocol \in NODIT_SCHEMA_PROTOCOLS
    /\ LET dispatched == CachedNoditApiHandler(step.parameters) IN
       /\ "status" \in DOMAIN dispatched
       /\ dispatched.status = "success"

\* C20: when a returned result has unresolved symbols, its pending plan lists
\* exactly those symbols and holds two steps, a keyword search and a
\* price-by-contract lookup, each of them ready for the dispatcher.
C20_PendingPlanDispatchReady ==
    (PricesReturned /\ noditSymbols # <<>>) =>
        /\ Len(PendingPlan(lastResult)) = 1
        /\ LET plan == PendingPlan(lastResult)[1] IN
           /\ plan.symbols = noditSymbols
           /\ Unresolved(lastResult) = noditSymbols
           /\ Len(plan.recommendations) = 2
           /\ DispatchReady(plan.recommendations[1])
           /\ plan.recommendations[1].parameters.operation_id = SEARCH_OPERATION
           /\ DispatchReady(plan.recommendations[2])
           /\ plan.recommendations[2].parameters.operation_id = PRICE_OPERATION

\* C21: the coverage percentage of a returned result is a number, lies
\* between 0 and 100 and is the number of symbols with a feed divided by the
\* number of symbols, as a percentage rounded to a whole number.
C21_CoverageRatioDefined ==
    PricesReturned =>
        LET percent == lastResult.optimization_summary.pyth_coverage.percent
            covered == Len(SelectSeq(lastCall.input.symbols, HasFeed))
            total == Len(lastCall.input.symbols)
        IN
        /\ ~IsNaN(percent)
        /\ percent.den = 1
        /\ percent.num >= 0
        /\ percent.num <= 100
        /\ 2 * percent.num * total - 200 * covered <= total
        /\ 200 * covered - 2 * percent.num * total <= total

(***************************************************************************)
(* Properties of the oracle price client.                                  *)
(***************************************************************************)
\* getLatestPriceUpdates has returned a price list for the oracle's answer.
PricesFormatted ==
    /\ pc \in {"responded", "done"}
    /\ OracleSucceeded
    /\ "parsed" \in DOMAIN priceUpdates

\* C22: the price getLatestPriceUpdates reports for an update with an integer
\* mantissa is mantissa x 10^expo, whatever the sign of the exponent.
C22_PriceIsMantissaTimesPowerOfTen ==
    PricesFormatted =>
        \A i \in 1..Len(priceUpdates.parsed) :
            "digits" \in DOMAIN priceUpdates.parsed[i].ema_price.price =>
                /\ pythResult.result.prices[i].price = UpdateValue(priceUpdates.parsed[i])
                /\ formatPythPrice(priceUpdates.parsed[i].ema_price.price,
                                   priceUpdates.parsed[i].ema_price.expo)
                      = [string_of |-> UpdateValue(priceUpdates.parsed[i])]

ClientResolved == pythResult.kind # "none"

\* The request to the oracle failed, or its answer could not be read.
ClientFailure ==
    \/ "thrown" \in DOMAIN priceUpdates
    \/ /\ "parsed" \in DOMAIN priceUpdates
       /\ \E i \in 1..Len(priceUpdates.parsed) :
             "ema_price" \notin DOMAIN priceUpdates.parsed[i]

\* C23: getLatestPriceUpdates and searchPriceFeeds never raise: when the
\* request to the oracle fails they return {success: false, error} with a
\* non-empty error text and no price or feed list, and otherwise
\* {success: true} with the price list (prices) or the feed list (priceFeeds).
C23_ClientFailureReturned ==
    ClientResolved =>
        /\ pythResult.kind = "returned"
        /\ LET result == pythResult.result IN
           IF ClientFailure
           THEN /\ result.success = FALSE
                /\ DOMAIN result = {"success", "error"}
                /\ result.error # ""
           ELSE /\ result.success = TRUE
                /\ DOMAIN result =
                      IF lastCall.tool = "pyth_search_price_feeds"
                      THEN {"success", "priceFeeds"} ELSE {"success", "prices"}

C23_Witness ==
    /\ lastCall.tool = "pyth_get_prices"
    /\ pc = "done"
    /\ priceUpdates = [thrown |-> ""]
    /\ pythResult.result = [success |-> FALSE, error |-> "Failed to get price updates"]
    /\ lastResult = [status |-> "error", message |-> "Failed to get price updates"]

\* A symbol without a feed does not keep the covered symbols of the same
\* request from the oracle batch.
SymbolFailureIsolated ==
    (IsResolvePrices /\ pc \in {"awaiting", "responded", "done"}) =>
        \A i \in 1..Len(lastCall.input.symbols) :
            HasFeed(lastCall.input.symbols[i]) =>
                \E k \in 1..Len(oracle_requests[1]) :
                    oracle_requests[1][k] =
                        pyth_feeds[ToUpperCase(lastCall.input.symbols[i])].feedId

\* An update that cannot be read does not keep the other updates of the
\* same answer from being priced.
UpdateFailureIsolated ==
    (ClientResolved /\ "parsed" \in DOMAIN priceUpdates) =>
        \A update \in NumericUpdates :
            update.ema_price.price.digits # 0 =>
                /\ pythResult.result.success
                /\ \E j \in 1..Len(pythResult.result.prices) :
                      /\ pythResult.result.prices[j].id = update.id
                      /\ pythResult.result.prices[j].price = UpdateValue(update)

\* C24: a failure that concerns one feed or one symbol (an update that is
\* malformed or lacks its price record, a symbol without a feed) does not
\* abort the others: the well-formed updates of the same answer are still
\* priced, and the covered symbols of the same request are still asked of the
\* oracle.
C24_SingleFailureIsolated == SymbolFailureIsolated /\ UpdateFailureIsolated

(***************************************************************************)
(* Properties of all results                                               *)
(***************************************************************************)
STATUSES == {"success", "error", "not_found", "instruction"}

\* The public operations: the dispatchers, the symbol resolver, the price
\* resolver, the native-token price lookup and the feed tools.
PUBLIC_OPERATIONS ==
    DISPATCH_TOOLS \cup RESOLVE_TOOLS \cup
    {"get_token_prices_by_symbols", "get_native_token_price_by_chain",
     "pyth_get_prices", "pyth_search_price_feeds"}

\* A public operation has handed back its result.
Returned == lastCall.tool \in PUBLIC_OPERATIONS /\ pc \in {"idle", "done"}

\* The result asks its caller to carry out a further plan: a lookup step of
\* the symbol resolver or the pending manual plan of the price resolver.
AsksForPlan ==
    \/ "next_step" \in DOMAIN lastResult
    \/ /\ IsResolvePrices
       /\ "execution_plan" \in DOMAIN lastResult
       /\ PendingPlan(lastResult) # <<>>

\* C25: every result of a public operation has a status field that is
\* "success", "error", "not_found" or "instruction", and the status is
\* "instruction" exactly when the result asks the caller to carry out a
\* further plan.
C25_StatusDiscriminator ==
    Returned =>
        /\ "status" \in DOMAIN lastResult
        /\ lastResult.status \in STATUSES
        /\ lastResult.status = "instruction" <=> AsksForPlan

(***************************************************************************)
(* Properties of overlapping requests                                      *)
(***************************************************************************)
\* What a finished request returns when it is the only request the server
\* ever serves, given the oracle's answer to it.
AloneResult(request) ==
    IF request.tool = "get_token_prices_by_symbols"
    THEN LET partition == getPythFeedsForSymbols(request.input.symbols) IN
         GetTokenPricesBySymbolsHandler(
             request.input, partition.pythFeeds, partition.noditSymbols,
             IF partition.pythFeeds = <<>> THEN NoOutcome
             ELSE [kind |-> "returned",
                   result |-> getLatestPriceUpdates(request.response)])
    ELSE HandlerOf(request.tool, request.input)

C27_RegistryKeysAreIds ==
    /\ \A key \in DOMAIN nodit_specs : nodit_specs[key].operationId = key
    /\ \A key \in DOMAIN bitcoin_specs : bitcoin_specs[key].operationId = key
    /\ \A key \in DOMAIN aptos_queries : aptos_queries[key].queryName = key
    /\ NODIT_SCHEMA_OPERATION_IDS = DOMAIN nodit_specs
    /\ BITCOIN_SCHEMA_OPERATION_IDS = DOMAIN bitcoin_specs
    /\ APTOS_SCHEMA_QUERY_NAMES = DOMAIN aptos_queries

C27_Witness ==
    /\ lastCall.tool = "cached_nodit_api"
    /\ lastCall.input.operation_id = "getGasPrice"
    /\ lastCall.input.operation_id \in NODIT_SCHEMA_OPERATION_IDS
    /\ Succeeded
    /\ ReturnedSpecId = "getGasPrice"

(***************************************************************************)
(* Properties of the native-token price lookup                             *)
(***************************************************************************)
NativePriceReturned ==
    lastCall.tool = "get_native_token_price_by_chain" /\ pc = "done"

\* The chain, in any letter case, is a chain of the native-symbol table.
HasNativeSymbol(chain) == ToLowerCase(chain) \in DOMAIN CHAIN_NATIVE_TOKEN_SYMBOLS

NativeSymbol(chain) == CHAIN_NATIVE_TOKEN_SYMBOLS[ToLowerCase(chain)]

\* The oracle gave at least one price entry.
OraclePriced ==
    /\ OracleSucceeded
    /\ "prices" \in DOMAIN pythResult.result
    /\ Len(pythResult.result.prices) >= 1

\* The lookup returns "success" only with an oracle price, and then reports
\* the first entry's price for the chain's native symbol.
NativeSuccessIsPriced ==
    (NativePriceReturned /\ "status" \in DOMAIN lastResult
        /\ lastResult.status = "success") =>
            /\ OraclePriced
            /\ HasNativeSymbol(lastCall.input.chain)
            /\ lastResult.native_token.symbol = NativeSymbol(lastCall.input.chain)
            /\ lastResult.native_token.price = pythResult.result.prices[1].price
            /\ lastResult.native_token.feed_id =
                  pyth_feeds[NativeSymbol(lastCall.input.chain)].feedId

\* Without a native feed, or without an oracle price, the lookup returns
\* status "error" naming the chain.
NativeFailureIsError ==
    (NativePriceReturned
        /\ (~HasNativeSymbol(lastCall.input.chain) \/ ~OraclePriced)) =>
            /\ "status" \in DOMAIN lastResult
            /\ lastResult.status = "error"
            /\ lastResult.chain = lastCall.input.chain

\* Every chain of the schema has a native symbol that has a feed.
SchemaChainsHaveFeeds ==
    \A chain \in NATIVE_SCHEMA_CHAINS :
        /\ chain \in DOMAIN CHAIN_NATIVE_TOKEN_SYMBOLS
        /\ CHAIN_NATIVE_TOKEN_SYMBOLS[chain] \in DOMAIN pyth_feeds

\* A chain of the table typed in any letter case is asked of the oracle.
NativeChainCaseInsensitive ==
    (NativePriceReturned /\ HasNativeSymbol(lastCall.input.chain)) =>
        oracle_requests = <<<<pyth_feeds[NativeSymbol(lastCall.input.chain)].feedId>>>>

\* C29: the native-token price lookup returns status "success" only when the
\* oracle call succeeded with at least one entry, reporting the first entry's
\* price for the chain's native symbol; when the chain has no native feed or
\* the oracle gives no price it returns status "error" naming the chain;
\* every chain of the schema has a native symbol with a feed; and the chain
\* is matched whatever its letter case.
C29_NativePriceLookup ==
    /\ NativeSuccessIsPriced
    /\ NativeFailureIsError
    /\ SchemaChainsHaveFeeds
    /\ NativeChainCaseInsensitive

(***************************************************************************)
(* Properties of the requested currency                                    *)
(***************************************************************************)
\* The currency the request asks for.
RequestedCurrency ==
    IF "currency" \in DOMAIN lastCall.input THEN lastCall.input.currency ELSE "USD"

\* The result of the same request without a currency, given the same answer
\* of the oracle.
ResultWithoutCurrency ==
    LET partition == getPythFeedsForSymbols(lastCall.input.symbols) IN
    GetTokenPricesBySymbolsHandler([symbols |-> lastCall.input.symbols],
                                   partition.pythFeeds, partition.noditSymbols,
                                   pythResult)

\* A plan in which the price-by-contract step asks for the currency.
PlanAskingFor(plan, currency) ==
    [i \in 1..Len(plan) |->
        IF "recommendations" \in DOMAIN plan[i]
        THEN [plan[i] EXCEPT
                 !.recommendations[2].parameters.request_body.currency = currency]
        ELSE plan[i]]

\* C30: every oracle quote of a price result has currency "USD" whatever
\* currency was requested; the result is the result of the same request
\* without a currency, except that overview.currency and the request body of
\* the pending price-by-contract step hold the requested currency: coverage,
\* quotes and prices do not depend on it.
C30_CurrencyOnlyEchoed ==
    PricesReturned =>
        /\ \A i \in 1..Len(Quotes(lastResult)) : Quotes(lastResult)[i].currency = "USD"
        /\ lastResult.overview.currency = RequestedCurrency
        /\ \A i \in 1..Len(PendingPlan(lastResult)) :
              PendingPlan(lastResult)[i].recommendations[2].parameters.request_body.currency
                  = RequestedCurrency
        /\ lastResult =
              [ResultWithoutCurrency EXCEPT
                  !.overview.currency = RequestedCurrency,
                  !.execution_plan =
                      PlanAskingFor(ResultWithoutCurrency.execution_plan,
                                    RequestedCurrency)]

C30_Witness ==
    /\ PricesReturned
    /\ lastCall.input = [symbols |-> <<BTC, PEPE>>, currency |-> "EUR"]
    /\ Len(Quotes(lastResult)) = 1
    /\ Quotes(lastResult)[1].currency = "USD"
    /\ ~IsNull(Quotes(lastResult)[1].price)
    /\ lastResult.overview.currency = "EUR"
    /\ Len(PendingPlan(lastResult)) = 1
    /\ PendingPlan(lastResult)[1].recommendations[2].parameters.request_body.currency = "EUR"

====
